---- MODULE Spec2Model ----
(***************************************************************************)
(* Rust-Mock: the request dispatcher and the endpoint store.               *)
(*                                                                         *)
(* Two servers are modelled over one set of variables.                     *)
(*   Spec    : the server of src/main.rs (AppState, the management         *)
(*             handlers, dispatch and the routing table of main).          *)
(*   SpecLib : the library server started by src/bin/server.rs             *)
(*             (start_server with a default proxy URL).  Its source is not *)
(*             part of src/, so its dispatcher follows spec.md 4.4-4.6.    *)
(* Strings that are matched (paths, templates) are sequences of            *)
(* one-character strings; JSON values are opaque atoms.                    *)
(***************************************************************************)
EXTENDS Integers, Sequences, FiniteSets, TLC

VARIABLES
    dynamic,        \* AppState.dynamic: HashMap<(method, path), DynamicEndpoint>
    dyn_poisoned,   \* whether the Mutex around AppState.dynamic is poisoned
    removed_spec,   \* AppState.removed_spec: HashSet<(method, path)>
    spec,           \* AppState.spec: Option<OpenAPI>, fixed at startup
    logs,           \* AppState.logs: Vec<RequestLog>
    last,           \* outcome of the most recent request (observer)
    lib_dynamic,    \* library server: endpoint store, entries carry proxy_url
    default_proxy,  \* library server: DefaultProxyUrl cell
    lib_logs,       \* library server: request trace
    lib_last,       \* library server: outcome of the most recent request (observer)
    pc,             \* concurrent handlers: where each worker's handler stands
    held            \* concurrent handlers: the worker holding each mutex, 0 for none

vars == <<dynamic, dyn_poisoned, removed_spec, spec, logs, last,
          lib_dynamic, default_proxy, lib_logs, lib_last, pc, held>>

main_vars == <<dynamic, dyn_poisoned, removed_spec, logs, last>>

lib_vars == <<lib_dynamic, default_proxy, lib_logs, lib_last>>

conc_vars == <<pc, held>>

(***************************************************************************)
(* Bounds of the model.                                                    *)
(***************************************************************************)
MaxEndpoints == 2

MaxRemoved == 1

MaxLogs == 1

\* entries of the trace in SpecTrace
MaxTrace == 2

(***************************************************************************)
(* Strings.                                                                *)
(***************************************************************************)
PathUA == <<"/", "u", "/", "a">>

PathTpl == <<"/", "u", "/", "{", "i", "}">>

PathMockX == <<"/", "_", "_", "m", "o", "c", "k", "/", "x">>

MockPrefix == <<"/", "_", "_", "m", "o", "c", "k">>

EndpointsPath == MockPrefix \o <<"/", "e", "n", "d", "p", "o", "i", "n", "t", "s">>

LogsPath == MockPrefix \o <<"/", "l", "o", "g", "s">>

ImportPath == MockPrefix \o <<"/", "i", "m", "p", "o", "r", "t">>

ExportPath == MockPrefix \o <<"/", "e", "x", "p", "o", "r", "t">>

ConfigPath == MockPrefix \o <<"/", "c", "o", "n", "f", "i", "g">>

Paths == {PathUA, PathTpl, PathMockX}

Methods == {"GET", "POST"}

NameChars == {"a", "c", "i", "k", "m", "o", "u", "x", "_"}

StartsWith(s, p) ==
    /\ Len(s) >= Len(p)
    /\ SubSeq(s, 1, Len(p)) = p

(***************************************************************************)
(* Regex::new(format!("^{}$", tpl.replace('{', "(?P<")                     *)
(*                               .replace('}', ">[^/]+)")))                *)
(* The pattern is a sequence of tokens: "lit" for a literal character,     *)
(* "any" for the metacharacter '.', which the template passes on unescaped *)
(* (the other metacharacters are in no template of the model), and "seg"   *)
(* for a named group (?P<name>[^/]+).  The regex fails to compile          *)
(* when a '{' is not closed by a '}' after a non-empty name of word        *)
(* characters, when a '}' closes nothing (an unopened ')'), or when a      *)
(* group name is used twice.                                               *)
(***************************************************************************)
RegexError == [ok |-> FALSE, toks |-> <<>>]

RegexOk(toks) == [ok |-> TRUE, toks |-> toks]

RECURSIVE GroupEnd(_, _)
GroupEnd(tpl, i) ==
    \* index of the '}' that ends the group name starting at i, 0 if the name is invalid
    IF i > Len(tpl) THEN 0
    ELSE IF tpl[i] = "}" THEN i
    ELSE IF tpl[i] \in NameChars THEN GroupEnd(tpl, i + 1)
    ELSE 0

RECURSIVE compile_from(_, _, _)
compile_from(tpl, i, names) ==
    IF i > Len(tpl) THEN RegexOk(<<>>)
    ELSE IF tpl[i] = "{" THEN
        LET e == GroupEnd(tpl, i + 1)
            name == IF e = 0 THEN <<>> ELSE SubSeq(tpl, i + 1, e - 1)
        IN  IF e = 0 \/ name = <<>> \/ name \in names THEN RegexError
            ELSE LET rest == compile_from(tpl, e + 1, names \cup {name})
                 IN  IF ~rest.ok THEN RegexError
                     ELSE RegexOk(<<[t |-> "seg", c |-> ""]>> \o rest.toks)
    ELSE IF tpl[i] = "}" THEN RegexError
    ELSE LET rest == compile_from(tpl, i + 1, names)
         IN  IF ~rest.ok THEN RegexError
             ELSE IF tpl[i] = "." THEN RegexOk(<<[t |-> "any", c |-> ""]>> \o rest.toks)
             ELSE RegexOk(<<[t |-> "lit", c |-> tpl[i]]>> \o rest.toks)

\* Regex::new(&format!("^{}$", ..)): [ok, toks]
regex_new(tpl) == compile_from(tpl, 1, {})

RECURSIVE match_from(_, _, _, _)
match_from(re, ti, s, si) ==
    \* whether tokens ti.. of re match exactly the characters si.. of s
    IF ti > Len(re) THEN si > Len(s)
    ELSE IF si > Len(s) THEN FALSE
    ELSE IF re[ti].t = "lit" THEN
        /\ s[si] = re[ti].c
        /\ match_from(re, ti + 1, s, si + 1)
    ELSE IF re[ti].t = "any" THEN
        \* '.' : any one character
        match_from(re, ti + 1, s, si + 1)
    ELSE
        \* [^/]+ : one or more characters other than '/'
        \E k \in si..Len(s) :
            /\ \A j \in si..k : s[j] # "/"
            /\ match_from(re, ti + 1, s, k + 1)

\* re.is_match(req_path) for a compiled regex
is_match(re, s) == match_from(re.toks, 1, s, 1)

(***************************************************************************)
(* Values.  Option<T> is a sequence: <<>> for None, <<x>> for Some(x).     *)
(***************************************************************************)
NoneV == <<>>

Some(x) == <<x>>

\* StatusCode::from_u16(..) is Ok for 100..=999
from_u16_ok(status) == status >= 100 /\ status < 1000

\* struct DynamicEndpoint { response, status, headers }
DynamicEndpoint(response, status, headers) ==
    [response |-> response, status |-> status, headers |-> headers]

(***************************************************************************)
(* HashMap<(String, String), DynamicEndpoint> as a set of entries.         *)
(***************************************************************************)
Entry(key, ep) == [key |-> key, ep |-> ep]

contains_key(map, key) == \E e \in map : e.key = key

\* HashMap::get(&key): Option<&V>
map_get(map, key) ==
    IF contains_key(map, key)
    THEN Some((CHOOSE e \in map : e.key = key).ep)
    ELSE NoneV

\* HashMap::insert(key, value): the entry of an equal key is replaced
map_insert(map, key, ep) == {e \in map : e.key # key} \cup {Entry(key, ep)}

\* a remove that evicts nothing
map_remove_nothing(map, key) == map

\* HashMap::remove(&key)
map_remove(map, key) == {e \in map : e.key # key}

(***************************************************************************)
(* OpenAPI documents (openapiv3::OpenAPI), reduced to paths, operations    *)
(* and response examples.                                                  *)
(***************************************************************************)
NoOp == [defined |-> FALSE, responses |-> {}]

\* an Operation: responses is the set of [status, example] of its responses
\* map, example being content["application/json"].example as an Option
Operation(responses) == [defined |-> TRUE, responses |-> responses]

Response(status, example) == [status |-> status, example |-> example]

PathItem(get, post) == [GET |-> get, POST |-> post]

\* spec.paths.paths, an IndexMap in document order
Doc1 ==
    << [tpl |-> PathTpl,
        item |-> PathItem(Operation({Response(200, Some("ex1"))}), NoOp)],
       [tpl |-> PathUA,
        item |-> PathItem(NoOp, Operation({Response(201, Some("ex2"))}))] >>

\* AppState.spec: Option<OpenAPI>
SpecDocs == {NoneV, Some(Doc1)}

OpNone == [kind |-> "None", op |-> NoOp]

OpPanic == [kind |-> "Panic", op |-> NoOp]

OpSome(op) == [kind |-> "Some", op |-> op]

\* fn get_operation(spec, method, req_path) -> Option<Operation>
\* (kind "Panic": Regex::new(..).unwrap() on a template that does not compile)
RECURSIVE get_operation_from(_, _, _, _)
get_operation_from(doc, i, method, req_path) ==
    IF i > Len(doc) THEN OpNone
    ELSE LET re == regex_new(doc[i].tpl)
         IN  IF ~re.ok THEN OpPanic
             ELSE IF is_match(re, req_path) /\ method \in DOMAIN doc[i].item
                     /\ doc[i].item[method].defined
                  THEN OpSome(doc[i].item[method])
                  ELSE get_operation_from(doc, i + 1, method, req_path)

get_operation(doc, method, req_path) == get_operation_from(doc, 1, method, req_path)

\* fn extract_example_response(op) -> Option<Value>
extract_example_response(op) ==
    LET hit == {r \in op.responses : r.status = 200 /\ r.example # NoneV}
    IN  IF hit # {} THEN (CHOOSE r \in hit : TRUE).example ELSE NoneV

(***************************************************************************)
(* Routing table of main: App::new().service(web::scope("/__mock")...)     *)
(*   .service(web::scope("").guard(Get).service(Files..default_handler))   *)
(*   .default_service(dispatch).                                           *)
(* Scope::route registers one resource per call, guarded by the route's    *)
(* method; a scope without a default service of its own falls back to the  *)
(* App's default service.  No file of ./ui/dist has one of the modelled    *)
(* paths, so Files hands every GET to its default handler.                 *)
(***************************************************************************)
MockRoutes ==
    { [method |-> "POST",   tail |-> <<"/", "e", "n", "d", "p", "o", "i", "n", "t", "s">>,
       to |-> "add_endpoint"],
      [method |-> "DELETE", tail |-> <<"/", "e", "n", "d", "p", "o", "i", "n", "t", "s">>,
       to |-> "remove_endpoint"],
      [method |-> "GET",    tail |-> <<"/", "c", "o", "n", "f", "i", "g">>,
       to |-> "get_config"],
      [method |-> "GET",    tail |-> <<"/", "l", "o", "g", "s">>,
       to |-> "get_logs"],
      [method |-> "DELETE", tail |-> <<"/", "l", "o", "g", "s">>,
       to |-> "clear_logs"],
      [method |-> "POST",   tail |-> <<"/", "i", "m", "p", "o", "r", "t">>,
       to |-> "import_openapi"],
      [method |-> "GET",    tail |-> <<"/", "e", "x", "p", "o", "r", "t">>,
       to |-> "export_openapi"] }

\* web::scope("/__mock") takes the paths "/__mock" and "/__mock/..."
in_mock_scope(path) ==
    /\ StartsWith(path, MockPrefix)
    /\ (Len(path) = Len(MockPrefix) \/ path[Len(MockPrefix) + 1] = "/")

route(method, path) ==
    IF in_mock_scope(path) THEN
        LET tail == SubSeq(path, Len(MockPrefix) + 1, Len(path))
            hit == {r \in MockRoutes : r.tail = tail /\ r.method = method}
        IN  IF hit # {} THEN (CHOOSE r \in hit : TRUE).to
            ELSE "dispatch"
    ELSE "dispatch"

(***************************************************************************)
(* What a handler did: the reply it returned, or a panic (the connection   *)
(* is dropped without a reply).                                            *)
(***************************************************************************)
to_json(v) == [json |-> v]

\* op: the handler; req_method, req_path: the request line; key, ep: the
\* (method, path) and the endpoint a management call names; prior: what the
\* store held for that key when the call arrived; lock_ok: whether
\* dynamic.lock() succeeded; status, body, ctype: the reply; source: the
\* branch of the handler that built the reply
Outcome(op, req_method, req_path, key, ep, prior, outcome, lock_ok, status, body, ctype, source) ==
    [op |-> op, req_method |-> req_method, req_path |-> req_path,
     key |-> key, ep |-> ep, prior |-> prior,
     outcome |-> outcome, lock_ok |-> lock_ok,
     status |-> status, body |-> body, ctype |-> ctype, source |-> source]

\* HttpResponse::Ok().json(json!({..})) of a management handler
Managed(op, req_method, req_path, key, ep, prior, body) ==
    Outcome(op, req_method, req_path, key, ep, prior, "reply", TRUE, 200,
            Some(to_json(body)), Some("application/json"), "management")

\* the reply of dispatch
Reply(method, path, status, body, ctype, source) ==
    Outcome("dispatch", method, path, NoneV, NoneV, NoneV, "reply", TRUE,
            status, body, ctype, source)

\* a panic inside a handler: the connection is dropped without a reply
Panicked(op, req_method, req_path, lock_ok) ==
    Outcome(op, req_method, req_path, NoneV, NoneV, NoneV, "panic", lock_ok,
            0, NoneV, NoneV, "none")

NoRequest ==
    Outcome("start", "", <<>>, NoneV, NoneV, NoneV, "none", TRUE, 0, NoneV, NoneV, "none")

\* struct RequestLog { method, path, .., status }
RequestLog(method, path, status) ==
    [method |-> method, path |-> path, status |-> status]

LibStart ==
    [op |-> "start", method |-> "", path |-> <<>>, status |-> 0, body |-> NoneV,
     ctype |-> NoneV, branch |-> "none", matched |-> NoneV,
     call |-> [made |-> FALSE, attempts |-> 0, url |-> "", path |-> <<>>,
               got |-> [ok |-> FALSE, status |-> 0, body |-> NoneV],
               inbound |-> {}, headers |-> {}]]

\* the workers that run handlers at the same time
Threads == {1, 2}

\* the Mutex fields of AppState, and the mutexes of the library's store,
\* trace and default-proxy cell
Mutexes == {"dynamic", "removed_spec", "logs", "store", "trace", "proxy"}

\* a worker that runs no handler; key and ep are the key and the body of a
\* management call, or the request line and the headers of a dispatched
\* request; acc is what the handler has read so far, out the reply it built
Idle ==
    [h |-> "idle", at |-> "idle", key |-> NoneV, ep |-> NoneV, acc |-> <<>>,
     out |-> NoneV, stable |-> {}]

Init ==
    /\ dynamic = {}
    /\ dyn_poisoned = FALSE
    /\ removed_spec = {}
    /\ spec \in SpecDocs
    /\ logs = <<>>
    /\ last = NoRequest
    /\ lib_dynamic = {}
    /\ default_proxy = NoneV
    /\ lib_logs = <<>>
    /\ lib_last = LibStart
    /\ pc = [t \in Threads |-> Idle]
    /\ held = [m \in Mutexes |-> 0]

(***************************************************************************)
(* Management handlers of src/main.rs.                                     *)
(***************************************************************************)
\* pub async fn add_endpoint(data, cfg: Json<EndpointConfig>)
add_endpoint(method, path, response, status_in, headers) ==
    LET status == IF status_in = NoneV THEN 200 ELSE status_in[1]
        ep == DynamicEndpoint(response, status, headers)
        key == <<method, path>>
    IN  /\ route("POST", EndpointsPath) = "add_endpoint"
        /\ IF dyn_poisoned
           THEN \* data.dynamic.lock().unwrap() panics
                /\ last' = Panicked("add_endpoint", "POST", EndpointsPath, FALSE)
                /\ UNCHANGED dynamic
           ELSE /\ contains_key(dynamic, key) \/ Cardinality(dynamic) < MaxEndpoints
                /\ dynamic' = map_insert(dynamic, key, ep)
                /\ last' = Managed("add_endpoint", "POST", EndpointsPath,
                                   Some(key), Some(ep), map_get(dynamic, key), "added")
        /\ UNCHANGED <<dyn_poisoned, removed_spec, spec, logs>>
        /\ UNCHANGED <<lib_vars, conc_vars>>

\* a delete that reports true whatever it did
remove_endpoint_always_true(method, path) ==
    LET key == <<method, path>>
        evicted == contains_key(dynamic, key)
        removed == TRUE
    IN  /\ route("DELETE", EndpointsPath) = "remove_endpoint"
        /\ IF dyn_poisoned
           THEN /\ last' = Panicked("remove_endpoint", "DELETE", EndpointsPath, FALSE)
                /\ UNCHANGED <<dynamic, removed_spec>>
           ELSE /\ evicted \/ Cardinality(removed_spec \cup {key}) <= MaxRemoved
                /\ dynamic' = map_remove(dynamic, key)
                /\ removed_spec' = IF evicted THEN removed_spec ELSE removed_spec \cup {key}
                /\ last' = Managed("remove_endpoint", "DELETE", EndpointsPath,
                                   Some(key), NoneV, map_get(dynamic, key),
                                   IF removed THEN "removed" ELSE "not removed")
        /\ UNCHANGED <<dyn_poisoned, spec, logs>>
        /\ UNCHANGED <<lib_vars, conc_vars>>

\* a delete that reports true only for an eviction
remove_endpoint_eviction_only(method, path) ==
    LET key == <<method, path>>
        evicted == contains_key(dynamic, key)
        removed == evicted
    IN  /\ route("DELETE", EndpointsPath) = "remove_endpoint"
        /\ IF dyn_poisoned
           THEN /\ last' = Panicked("remove_endpoint", "DELETE", EndpointsPath, FALSE)
                /\ UNCHANGED <<dynamic, removed_spec>>
           ELSE /\ evicted \/ Cardinality(removed_spec \cup {key}) <= MaxRemoved
                /\ dynamic' = map_remove(dynamic, key)
                /\ removed_spec' = IF evicted THEN removed_spec ELSE removed_spec \cup {key}
                /\ last' = Managed("remove_endpoint", "DELETE", EndpointsPath,
                                   Some(key), NoneV, map_get(dynamic, key),
                                   IF removed THEN "removed" ELSE "not removed")
        /\ UNCHANGED <<dyn_poisoned, spec, logs>>
        /\ UNCHANGED <<lib_vars, conc_vars>>

\* pub async fn remove_endpoint(data, cfg: Json<RemoveConfig>)
remove_endpoint(method, path) ==
    LET key == <<method, path>>
        evicted == contains_key(dynamic, key)
        removed == IF evicted THEN TRUE ELSE key \notin removed_spec
    IN  /\ route("DELETE", EndpointsPath) = "remove_endpoint"
        /\ IF dyn_poisoned
           THEN /\ last' = Panicked("remove_endpoint", "DELETE", EndpointsPath, FALSE)
                /\ UNCHANGED <<dynamic, removed_spec>>
           ELSE /\ evicted \/ Cardinality(removed_spec \cup {key}) <= MaxRemoved
                /\ dynamic' = map_remove(dynamic, key)
                /\ removed_spec' = IF evicted THEN removed_spec ELSE removed_spec \cup {key}
                /\ last' = Managed("remove_endpoint", "DELETE", EndpointsPath,
                                   Some(key), NoneV, map_get(dynamic, key),
                                   IF removed THEN "removed" ELSE "not removed")
        /\ UNCHANGED <<dyn_poisoned, spec, logs>>
        /\ UNCHANGED <<lib_vars, conc_vars>>

\* pub async fn clear_logs(data)
clear_logs ==
    /\ route("DELETE", LogsPath) = "clear_logs"
    /\ logs' = <<>>
    /\ last' = Managed("clear_logs", "DELETE", LogsPath, NoneV, NoneV, NoneV, "cleared")
    /\ UNCHANGED <<dynamic, dyn_poisoned, removed_spec, spec>>
    /\ UNCHANGED <<lib_vars, conc_vars>>

\* a read that lists the newest entry first
get_logs_newest_first ==
    /\ route("GET", LogsPath) = "get_logs"
    /\ last' = Managed("get_logs", "GET", LogsPath, NoneV, NoneV, NoneV,
                       [i \in 1..Len(logs) |-> logs[Len(logs) + 1 - i]])
    /\ UNCHANGED <<dynamic, dyn_poisoned, removed_spec, spec, logs>>
    /\ UNCHANGED <<lib_vars, conc_vars>>

\* pub async fn get_logs(data): the reply is the trace as it stands
get_logs ==
    /\ route("GET", LogsPath) = "get_logs"
    /\ last' = Managed("get_logs", "GET", LogsPath, NoneV, NoneV, NoneV, logs)
    /\ UNCHANGED <<dynamic, dyn_poisoned, removed_spec, spec, logs>>
    /\ UNCHANGED <<lib_vars, conc_vars>>

\* the orders in which iter() may yield the entries of a HashMap
Orders(map) ==
    {f \in [1..Cardinality(map) -> map] : \A e \in map : \E i \in DOMAIN f : f[i] = e}

\* fn get_request_schema(raw_spec, method, path): the schema of the request
\* body; the operations of SpecDocs declare no requestBody
get_request_schema(doc, method, path) == NoneV

\* get_config, line 137: json!({"method", "path", "request_schema", "response_example"})
ConfigSpecItem(method, tpl, schema, example) ==
    [part |-> "spec", method |-> method, path |-> tpl, request_schema |-> schema,
     response_example |-> example, response |-> NoneV, status |-> NoneV, headers |-> NoneV]

\* get_config, line 146: json!({"method", "path", "request_schema": null,
\* "response", "status", "headers"})
ConfigDynamicItem(e) ==
    [part |-> "dynamic", method |-> e.key[1], path |-> e.key[2], request_schema |-> NoneV,
     response_example |-> NoneV, response |-> Some(e.ep.response),
     status |-> Some(e.ep.status), headers |-> e.ep.headers]

\* the methods get_config walks per path item, in its order
ConfigMethods == <<"GET", "POST">>

\* get_config, lines 129-141: the (path index, method) pairs in loop order
config_visits(doc) ==
    [k \in 1..(Len(ConfigMethods) * Len(doc)) |->
        [i |-> ((k - 1) \div Len(ConfigMethods)) + 1,
         m |-> ConfigMethods[((k - 1) % Len(ConfigMethods)) + 1]]]

\* a listing of the document that does not consult the removed-spec set
config_spec_items_all(doc, rem) ==
    LET hit == SelectSeq(config_visits(doc), LAMBDA v : doc[v.i].item[v.m].defined)
    IN  [k \in 1..Len(hit) |->
            ConfigSpecItem(hit[k].m, doc[hit[k].i].tpl,
                           get_request_schema(doc, hit[k].m, doc[hit[k].i].tpl),
                           extract_example_response(doc[hit[k].i].item[hit[k].m]))]

\* get_config, lines 126-143: the operations of the document that are not in
\* removed_spec, in document order
config_spec_items(doc, rem) ==
    LET hit == SelectSeq(config_visits(doc),
                         LAMBDA v : /\ doc[v.i].item[v.m].defined
                                    /\ <<v.m, doc[v.i].tpl>> \notin rem)
    IN  [k \in 1..Len(hit) |->
            ConfigSpecItem(hit[k].m, doc[hit[k].i].tpl,
                           get_request_schema(doc, hit[k].m, doc[hit[k].i].tpl),
                           extract_example_response(doc[hit[k].i].item[hit[k].m]))]

\* pub async fn get_config(data): the removed_spec guard is dropped at the end
\* of the `if let Some(spec)` block, before data.dynamic.lock()
get_config ==
    LET from_spec == IF spec = NoneV THEN <<>> ELSE config_spec_items(spec[1], removed_spec)
    IN  /\ route("GET", ConfigPath) = "get_config"
        /\ IF dyn_poisoned
           THEN last' = Panicked("get_config", "GET", ConfigPath, FALSE)
           ELSE \E order \in Orders(dynamic) :
                    last' = Managed("get_config", "GET", ConfigPath, NoneV, NoneV, NoneV,
                                    from_spec \o [i \in 1..Cardinality(dynamic) |->
                                                     ConfigDynamicItem(order[i])])
        /\ UNCHANGED <<dynamic, dyn_poisoned, removed_spec, spec, logs>>
        /\ UNCHANGED <<lib_vars, conc_vars>>

(***************************************************************************)
(* The dispatcher of src/main.rs.                                          *)
(***************************************************************************)
\* String::to_uppercase on an HTTP method token
to_uppercase(m) ==
    CASE m = "get" -> "GET"
      [] m = "post" -> "POST"
      [] OTHER -> m

\* data.dynamic.lock().unwrap().get(&(method, path))
find_endpoint(map, method, path) == map_get(map, <<method, path>>)

\* the value of `response` in dispatch (lines 312-326), given that
\* data.dynamic.lock() succeeded
dispatch_response(map, doc, method, path) ==
    LET found == find_endpoint(map, method, path)
    IN  IF found # NoneV THEN
            IF from_u16_ok(found[1].status)
            THEN Reply(method, path, found[1].status,
                       Some(to_json(found[1].response)), Some("application/json"), "dynamic")
            ELSE \* StatusCode::from_u16(ep.status).unwrap()
                 Panicked("dispatch", method, path, TRUE)
        ELSE IF doc # NoneV THEN
            LET got == get_operation(doc[1], method, path)
            IN  IF got.kind = "Panic" THEN Panicked("dispatch", method, path, TRUE)
                ELSE IF got.kind = "Some" THEN
                    LET example == extract_example_response(got.op)
                    IN  IF example # NoneV
                        THEN Reply(method, path, 200,
                                   Some(to_json(example[1])), Some("application/json"), "spec")
                        ELSE Reply(method, path, 200, NoneV, NoneV, "spec")
                ELSE Reply(method, path, 404, NoneV, NoneV, "notfound")
        ELSE Reply(method, path, 404, NoneV, NoneV, "notfound")

\* pub async fn dispatch(req, body, data); cap bounds the length of the trace
dispatch_capped(req_method, path, cap) ==
    LET method == to_uppercase(req_method)
        out == IF dyn_poisoned
               THEN Panicked("dispatch", method, path, FALSE)
               ELSE dispatch_response(dynamic, spec, method, path)
        in_then == out.outcome = "panic" /\ out.lock_ok
                   /\ find_endpoint(dynamic, method, path) # NoneV
    IN  /\ route(req_method, path) = "dispatch"
        /\ last' = out
        /\ IF out.outcome = "reply"
           THEN /\ Len(logs) < cap
                /\ logs' = Append(logs, RequestLog(method, path, out.status))
                /\ UNCHANGED dyn_poisoned
           ELSE /\ UNCHANGED logs
                \* the guard of `if let Some(ep) = data.dynamic.lock()..` is alive in
                \* the then-block; whether it is still alive in the else-blocks
                \* depends on the edition the crate is built with
                /\ dyn_poisoned' \in IF ~out.lock_ok THEN {dyn_poisoned}
                                     ELSE IF in_then THEN {TRUE}
                                     ELSE {TRUE, FALSE}
        /\ UNCHANGED <<dynamic, removed_spec, spec>>
        /\ UNCHANGED <<lib_vars, conc_vars>>

dispatch(req_method, path) == dispatch_capped(req_method, path, MaxLogs)

(***************************************************************************)
(* Requests the clients send.                                              *)
(***************************************************************************)
\* (method, path) of the bodies of POST and DELETE /__mock/endpoints
ConfigKeys ==
    { <<"GET", PathUA>>, <<"GET", PathTpl>>, <<"GET", PathMockX>>, <<"POST", PathUA>> }

\* response, status and headers of the bodies of POST /__mock/endpoints
ConfigBodies ==
    { [response |-> "r1", status |-> NoneV,      headers |-> NoneV],
      [response |-> "r2", status |-> Some(200),  headers |-> NoneV],
      [response |-> "r1", status |-> Some(1000), headers |-> NoneV] }

\* keys whose method is not one of the upper-case tokens GET, POST, PUT,
\* PATCH, DELETE; EndpointConfig.method is a String
RawMethodKeys == { <<"get", PathUA>>, <<"TRACE", PathUA>> }

Next ==
    \/ \E k \in ConfigKeys, c \in ConfigBodies :
           add_endpoint(k[1], k[2], c.response, c.status, c.headers)
    \/ \E k \in RawMethodKeys : add_endpoint(k[1], k[2], "r1", NoneV, NoneV)
    \/ \E k \in ConfigKeys : remove_endpoint(k[1], k[2])
    \/ clear_logs
    \/ get_logs
    \/ \E m \in Methods, p \in Paths : dispatch(m, p)

Spec == Init /\ [][Next]_vars

(***************************************************************************)
(* OpenAPI import and export (import_openapi, export_openapi).             *)
(* A JSON document is [openapi, paths]: openapi says whether the value has *)
(* the required members of an OpenAPI 3 document, paths lists the members  *)
(* of "paths" as [tpl, ops], ops being the set of [name, responses] of the *)
(* path item and responses the set of [code, example] of the operation.    *)
(***************************************************************************)
JsonResponse(code, example) == [code |-> code, example |-> example]

JsonOp(name, responses) == [name |-> name, responses |-> responses]

JsonPath(tpl, ops) == [tpl |-> tpl, ops |-> ops]

JsonDoc(paths) == [openapi |-> TRUE, paths |-> paths]

\* json!({"invalid": "spec"})
JsonInvalid == [openapi |-> FALSE, paths |-> <<>>]

ParseError == [ok |-> FALSE, doc |-> <<>>]

ParseOk(doc) == [ok |-> TRUE, doc |-> doc]

\* the operation the path item holds under the member `name`
json_operation(ops, name) ==
    IF \E o \in ops : o.name = name
    THEN Operation({Response(r.code, r.example) :
                        r \in (CHOOSE o \in ops : o.name = name).responses})
    ELSE NoOp

\* serde_json::from_value::<OpenAPI>(value): the required members must be
\* there and every key of a responses map must be a status code (openapiv3
\* takes the integers 100..999); members of a path item other than the method
\* names are not operations
from_value(json) ==
    IF ~json.openapi THEN ParseError
    ELSE IF \E i \in 1..Len(json.paths) : \E o \in json.paths[i].ops :
                \E r \in o.responses : ~(r.code >= 100 /\ r.code < 1000)
    THEN ParseError
    ELSE ParseOk([i \in 1..Len(json.paths) |->
                    [tpl |-> json.paths[i].tpl,
                     item |-> PathItem(json_operation(json.paths[i].ops, "get"),
                                       json_operation(json.paths[i].ops, "post"))]])

\* json!({"message": "OK"})
MessageOk == "message OK"

\* Some(HashMap::from([("Content-Type", "application/json")]))
ContentTypeJson == Some({<<"Content-Type", "application/json">>})

\* the methods import_openapi walks, in its order
ImportMethods == <<"GET", "POST">>

\* import_openapi, lines 198-204
import_status(op) ==
    IF \E r \in op.responses : r.status = 201 THEN 201
    ELSE IF \E r \in op.responses : r.status = 204 THEN 204
    ELSE 200

\* import_openapi, lines 193-213: the endpoint made from one operation
import_endpoint(op) ==
    LET example == extract_example_response(op)
    IN  DynamicEndpoint(IF example # NoneV THEN example[1] ELSE MessageOk,
                        import_status(op), ContentTypeJson)

\* the (path index, method) pairs in the order the two loops visit them
import_visits(doc) ==
    [k \in 1..(Len(ImportMethods) * Len(doc)) |->
        [i |-> ((k - 1) \div Len(ImportMethods)) + 1,
         m |-> ImportMethods[((k - 1) % Len(ImportMethods)) + 1]]]

\* an import that walks the GET operations only
import_endpoints_get_only(doc) ==
    LET hit == SelectSeq(import_visits(doc),
                         LAMBDA v : v.m = "GET" /\ doc[v.i].item[v.m].defined)
    IN  [k \in 1..Len(hit) |->
            Entry(<<hit[k].m, doc[hit[k].i].tpl>>,
                  import_endpoint(doc[hit[k].i].item[hit[k].m]))]

\* import_openapi, lines 182-227: the entries inserted, in order
import_endpoints(doc) ==
    LET hit == SelectSeq(import_visits(doc), LAMBDA v : doc[v.i].item[v.m].defined)
    IN  [k \in 1..Len(hit) |->
            Entry(<<hit[k].m, doc[hit[k].i].tpl>>,
                  import_endpoint(doc[hit[k].i].item[hit[k].m]))]

\* dyn_map.insert(..) for every entry of the sequence, in order
RECURSIVE insert_all(_, _)
insert_all(map, entries) ==
    IF entries = <<>> THEN map
    ELSE insert_all(map_insert(map, entries[1].key, entries[1].ep), Tail(entries))

\* HttpResponse::BadRequest().json(json!({"error": format!("{}: {}", msg, e)}))
BadRequest(op, req_method, req_path, ep, msg) ==
    Outcome(op, req_method, req_path, NoneV, ep, NoneV, "reply", TRUE, 400,
            Some(to_json(<<msg, "detail">>)), Some("application/json"), "management")

\* an import that empties the store when the document does not parse
import_openapi_drops_store(json) ==
    LET parsed == from_value(json)
        entries == import_endpoints(parsed.doc)
    IN  /\ route("POST", ImportPath) = "import_openapi"
        /\ IF ~parsed.ok
           THEN /\ last' = BadRequest("import_openapi", "POST", ImportPath, Some(json),
                                      "Invalid OpenAPI specification")
                /\ dynamic' = {}
           ELSE IF dyn_poisoned
           THEN /\ last' = Panicked("import_openapi", "POST", ImportPath, FALSE)
                /\ UNCHANGED dynamic
           ELSE /\ Cardinality(insert_all(dynamic, entries)) <= MaxEndpoints
                /\ dynamic' = insert_all(dynamic, entries)
                /\ last' = Managed("import_openapi", "POST", ImportPath, NoneV, Some(json),
                                   NoneV,
                                   [imported |-> TRUE, count |-> Len(entries),
                                    endpoints |-> [k \in 1..Len(entries) |->
                                        [method |-> entries[k].key[1],
                                         path |-> entries[k].key[2],
                                         status |-> entries[k].ep.status]]])
        /\ UNCHANGED <<dyn_poisoned, removed_spec, spec, logs>>
        /\ UNCHANGED <<lib_vars, conc_vars>>

\* pub async fn import_openapi(data, req: Json<ImportRequest>); `ep` of the
\* outcome holds the document of the request
import_openapi(json) ==
    LET parsed == from_value(json)
        entries == import_endpoints(parsed.doc)
    IN  /\ route("POST", ImportPath) = "import_openapi"
        /\ IF ~parsed.ok
           THEN /\ last' = BadRequest("import_openapi", "POST", ImportPath, Some(json),
                                      "Invalid OpenAPI specification")
                /\ UNCHANGED dynamic
           ELSE IF dyn_poisoned
           THEN /\ last' = Panicked("import_openapi", "POST", ImportPath, FALSE)
                /\ UNCHANGED dynamic
           ELSE /\ Cardinality(insert_all(dynamic, entries)) <= MaxEndpoints
                /\ dynamic' = insert_all(dynamic, entries)
                /\ last' = Managed("import_openapi", "POST", ImportPath, NoneV, Some(json),
                                   NoneV,
                                   [imported |-> TRUE, count |-> Len(entries),
                                    endpoints |-> [k \in 1..Len(entries) |->
                                        [method |-> entries[k].key[1],
                                         path |-> entries[k].key[2],
                                         status |-> entries[k].ep.status]]])
        /\ UNCHANGED <<dyn_poisoned, removed_spec, spec, logs>>
        /\ UNCHANGED <<lib_vars, conc_vars>>

\* String::to_lowercase on a method token
to_lowercase(m) ==
    CASE m = "GET" -> "get"
      [] m = "POST" -> "post"
      [] m = "TRACE" -> "trace"
      [] OTHER -> m

\* the members of paths_map: the keys of a JSON object carry no order of
\* their own, the document lists them in byte order
ExportOrder == <<PathMockX, PathUA, PathTpl>>

\* the members export_openapi writes: (path, method.to_lowercase())
ExportSlots(map) == {<<e.key[2], to_lowercase(e.key[1])>> : e \in map}

\* path_item.insert(method.to_lowercase(), ..) replaces the member an earlier
\* entry wrote, so each member holds the entry dyn_map.iter() yields last; the
\* order of a HashMap is arbitrary: any entry of the member may be the last
ExportWinners(map) ==
    {f \in [ExportSlots(map) -> map] :
        \A s \in ExportSlots(map) : <<f[s].key[2], to_lowercase(f[s].key[1])>> = s}

\* export_openapi, lines 236-286: one path item per stored path, one operation
\* per member under the lower-cased method, one response under the stored
\* status with the stored response as example
export_doc(map, last_of) ==
    LET used == SelectSeq(ExportOrder, LAMBDA p : \E e \in map : e.key[2] = p)
    IN  JsonDoc([i \in 1..Len(used) |->
            JsonPath(used[i],
                     {JsonOp(s[2], {JsonResponse(last_of[s].ep.status,
                                                 Some(last_of[s].ep.response))}) :
                          s \in {x \in ExportSlots(map) : x[1] = used[i]}})])

\* pub async fn export_openapi(data)
export_openapi ==
    /\ route("GET", ExportPath) = "export_openapi"
    /\ IF dyn_poisoned
       THEN last' = Panicked("export_openapi", "GET", ExportPath, FALSE)
       ELSE \E last_of \in ExportWinners(dynamic) :
                last' = Managed("export_openapi", "GET", ExportPath, NoneV, NoneV, NoneV,
                                export_doc(dynamic, last_of))
    /\ UNCHANGED <<dynamic, dyn_poisoned, removed_spec, spec, logs>>
    /\ UNCHANGED <<lib_vars, conc_vars>>

\* the documents clients post to /__mock/import
ImportDocs ==
    { JsonInvalid,
      JsonDoc(<<JsonPath(PathUA,
                   {JsonOp("get",  {JsonResponse(200, Some("ex1"))}),
                    JsonOp("post", {JsonResponse(201, Some("ex2"))})})>>),
      JsonDoc(<<JsonPath(PathTpl,
                   {JsonOp("get",  {JsonResponse(202, Some("ex1"))}),
                    JsonOp("post", {JsonResponse(200, Some("ex1")),
                                    JsonResponse(201, NoneV)})})>>),
      JsonDoc(<<JsonPath(PathUA,
                   {JsonOp("get",  {JsonResponse(204, NoneV),
                                    JsonResponse(404, Some("ex2"))})})>>) }

\* the handlers that share the endpoint store with import and export
ImportNext ==
    \/ \E j \in ImportDocs : import_openapi(j)
    \/ export_openapi
    \/ \E k \in ConfigKeys, c \in ConfigBodies :
           add_endpoint(k[1], k[2], c.response, c.status, c.headers)
    \/ \E m \in Methods, p \in Paths : dispatch(m, p)

SpecImport == Init /\ [][ImportNext]_vars

\* the snapshots (export, config) next to the handlers that write the
\* endpoint store and the removed-spec set, with keys whose method is not
\* canonical
ExportNext ==
    \/ \E k \in ConfigKeys, c \in ConfigBodies :
           add_endpoint(k[1], k[2], c.response, c.status, c.headers)
    \/ \E k \in RawMethodKeys : add_endpoint(k[1], k[2], "r1", NoneV, NoneV)
    \/ \E k \in ConfigKeys : remove_endpoint(k[1], k[2])
    \/ export_openapi
    \/ get_config
    \/ \E m \in Methods, p \in Paths : dispatch(m, p)

SpecExport == Init /\ [][ExportNext]_vars

(***************************************************************************)
(* The request trace: the handlers that write or read AppState.logs, with  *)
(* add_endpoint to vary what dispatch replies, and a trace of up to        *)
(* MaxTrace entries.                                                       *)
(***************************************************************************)
TraceKeys == { <<"GET", PathUA>>, <<"POST", PathUA>> }

TraceNext ==
    \/ \E k \in TraceKeys, c \in ConfigBodies :
           add_endpoint(k[1], k[2], c.response, c.status, c.headers)
    \/ clear_logs
    \/ get_logs
    \/ \E m \in Methods, p \in Paths : dispatch_capped(m, p, MaxTrace)

SpecTrace == Init /\ [][TraceNext]_vars

(***************************************************************************)
(* Handlers of src/main.rs running at the same time on the workers of the  *)
(* HttpServer.  A handler runs from one lock() to the next in one step:    *)
(* conc_call runs it up to its first lock(), conc_lock is the lock() that  *)
(* waits for the mutex, and one action per critical section runs up to the *)
(* next lock() or the reply.  A guard that is a temporary of a statement   *)
(* is dropped at the end of that statement; a guard bound by `let` is      *)
(* dropped at the end of its block.                                        *)
(***************************************************************************)
\* every lock() call: the label of the call, the mutex, the label reached
\* once the guard is held
LockSites ==
    { [at |-> "add:lock",           mutex |-> "dynamic",      next |-> "add:insert"],
      [at |-> "remove:lock_dyn",    mutex |-> "dynamic",      next |-> "remove:lock_rem"],
      [at |-> "remove:lock_rem",    mutex |-> "removed_spec", next |-> "remove:run"],
      [at |-> "config:lock_rem",    mutex |-> "removed_spec", next |-> "config:spec"],
      [at |-> "config:lock_dyn",    mutex |-> "dynamic",      next |-> "config:dynamic"],
      [at |-> "logs:lock",          mutex |-> "logs",         next |-> "logs:read"],
      [at |-> "clear:lock",         mutex |-> "logs",         next |-> "clear:run"],
      [at |-> "import:lock",        mutex |-> "dynamic",      next |-> "import:insert"],
      [at |-> "export:lock",        mutex |-> "dynamic",      next |-> "export:build"],
      [at |-> "dispatch:lock_dyn",  mutex |-> "dynamic",      next |-> "dispatch:lookup"],
      [at |-> "dispatch:lock_logs", mutex |-> "logs",         next |-> "dispatch:push"] }

\* the lock() calls of the library's dispatcher (store, default-proxy cell,
\* trace), in the order of 4.5
LibLockSites ==
    { [at |-> "lib:lock_store", mutex |-> "store", next |-> "lib:lookup"],
      [at |-> "lib:lock_proxy", mutex |-> "proxy", next |-> "lib:read_proxy"],
      [at |-> "lib:lock_trace", mutex |-> "trace", next |-> "lib:append"] }

\* the first lock() of each handler
FirstLock(h) ==
    CASE h = "add_endpoint"    -> "add:lock"
      [] h = "remove_endpoint" -> "remove:lock_dyn"
      [] h = "get_config"      -> IF spec # NoneV THEN "config:lock_rem" ELSE "config:lock_dyn"
      [] h = "get_logs"        -> "logs:lock"
      [] h = "clear_logs"      -> "clear:lock"
      [] h = "import_openapi"  -> "import:lock"
      [] h = "export_openapi"  -> "export:lock"
      [] h = "dispatch"        -> "dispatch:lock_dyn"

\* the request line that routes to handler h
RequestLine(h, key) ==
    CASE h = "add_endpoint"    -> <<"POST", EndpointsPath>>
      [] h = "remove_endpoint" -> <<"DELETE", EndpointsPath>>
      [] h = "get_config"      -> <<"GET", ConfigPath>>
      [] h = "get_logs"        -> <<"GET", LogsPath>>
      [] h = "clear_logs"      -> <<"DELETE", LogsPath>>
      [] h = "import_openapi"  -> <<"POST", ImportPath>>
      [] h = "export_openapi"  -> <<"GET", ExportPath>>
      [] h = "dispatch"        -> key[1]

\* the mutexes worker t holds
HeldBy(t) == {m \in Mutexes : held[m] = t}

\* the guards of worker t in `dropped` are dropped
Release(t, dropped) == [m \in Mutexes |-> IF held[m] = t /\ m \in dropped THEN 0 ELSE held[m]]

\* the keys of the store that match the request of a dispatch, exactly or as
\* a template
MatchingKeys(map, method, path) ==
    {e.key : e \in {x \in map : x.key = <<method, path>>
                                  \/ ( /\ x.key[1] = method
                                       /\ regex_new(x.key[2]).ok
                                       /\ is_match(regex_new(x.key[2]), path) )}}

\* observer: for each running dispatch, `stable` keeps the matching keys that
\* were in the store at every moment since the dispatch was called
Settle(workers, map) ==
    [u \in Threads |->
        IF workers[u].h = "dispatch"
        THEN [workers[u] EXCEPT !.stable = {k \in @ : contains_key(map, k)}]
        ELSE workers[u]]

\* worker t takes a request for handler h and runs it up to its first lock();
\* import_openapi parses before it locks and replies 400 without locking
conc_call(t, h, key, ep) ==
    /\ pc[t] = Idle
    /\ route(RequestLine(h, key)[1], RequestLine(h, key)[2]) = h
    /\ h = "dispatch" =>
          Len(logs) + Cardinality({u \in Threads : pc[u].h = "dispatch"}) < MaxLogs
    /\ IF h = "import_openapi" /\ ~from_value(ep[1]).ok
       THEN /\ last' = BadRequest("import_openapi", "POST", ImportPath, ep,
                                  "Invalid OpenAPI specification")
            /\ UNCHANGED pc
       ELSE /\ pc' = [pc EXCEPT ![t] =
                         [h |-> h, at |-> FirstLock(h), key |-> key, ep |-> ep,
                          acc |-> <<>>, out |-> NoneV,
                          stable |-> IF h = "dispatch"
                                     THEN MatchingKeys(dynamic, to_uppercase(key[1][1]), key[1][2])
                                     ELSE {}]]
            /\ UNCHANGED last
    /\ UNCHANGED <<dynamic, dyn_poisoned, removed_spec, spec, logs, held>>
    /\ UNCHANGED lib_vars

\* mutex.lock().unwrap(): waits while another worker holds the mutex; on a
\* poisoned mutex lock() returns Err, unwrap panics and the unwinding drops
\* every guard the handler holds
conc_lock(t) ==
    /\ \E s \in LockSites \cup LibLockSites :
          /\ s.at = pc[t].at
          /\ held[s.mutex] = 0
          /\ IF s.mutex = "dynamic" /\ dyn_poisoned
             THEN /\ last' = Panicked(pc[t].h, RequestLine(pc[t].h, pc[t].key)[1],
                                      RequestLine(pc[t].h, pc[t].key)[2], FALSE)
                  /\ held' = Release(t, Mutexes)
                  /\ pc' = [pc EXCEPT ![t] = Idle]
             ELSE /\ held' = [held EXCEPT ![s.mutex] = t]
                  /\ pc' = [pc EXCEPT ![t].at = s.next]
                  /\ UNCHANGED last
    /\ UNCHANGED <<dynamic, dyn_poisoned, removed_spec, spec, logs>>
    /\ UNCHANGED lib_vars

\* add_endpoint, lines 106-108: insert under the guard, which is dropped at
\* the end of the statement
conc_add(t) ==
    /\ pc[t].at = "add:insert"
    /\ dynamic' = map_insert(dynamic, pc[t].key[1], pc[t].ep[1])
    /\ held' = Release(t, {"dynamic"})
    /\ last' = Managed("add_endpoint", "POST", EndpointsPath, pc[t].key, pc[t].ep,
                       map_get(dynamic, pc[t].key[1]), "added")
    /\ pc' = Settle([pc EXCEPT ![t] = Idle], dynamic')
    /\ UNCHANGED <<dyn_poisoned, removed_spec, spec, logs>>
    /\ UNCHANGED lib_vars

\* remove_endpoint, lines 114-121, with dyn_map and rem_spec both held; the
\* two guards are dropped when the handler returns
conc_remove(t) ==
    LET key == pc[t].key[1]
        evicted == contains_key(dynamic, key)
        removed == IF evicted THEN TRUE ELSE key \notin removed_spec
    IN  /\ pc[t].at = "remove:run"
        /\ dynamic' = map_remove(dynamic, key)
        /\ removed_spec' = IF evicted THEN removed_spec ELSE removed_spec \cup {key}
        /\ held' = Release(t, {"dynamic", "removed_spec"})
        /\ last' = Managed("remove_endpoint", "DELETE", EndpointsPath,
                           Some(key), NoneV, map_get(dynamic, key),
                           IF removed THEN "removed" ELSE "not removed")
        /\ pc' = Settle([pc EXCEPT ![t] = Idle], dynamic')
        /\ UNCHANGED <<dyn_poisoned, spec, logs>>
        /\ UNCHANGED lib_vars

\* a get_config that keeps the guard of removed_spec while it locks dynamic
conc_config_spec_keeps_guard(t) ==
    /\ pc[t].at = "config:spec"
    /\ pc' = [pc EXCEPT ![t].acc = config_spec_items(spec[1], removed_spec),
                        ![t].at = "config:lock_dyn"]
    /\ UNCHANGED held
    /\ UNCHANGED <<dynamic, dyn_poisoned, removed_spec, spec, logs, last>>
    /\ UNCHANGED lib_vars

\* get_config, lines 127-143: the items of the spec under the guard of
\* removed_spec, dropped at the end of the `if let Some(spec)` block
conc_config_spec(t) ==
    /\ pc[t].at = "config:spec"
    /\ pc' = [pc EXCEPT ![t].acc = config_spec_items(spec[1], removed_spec),
                        ![t].at = "config:lock_dyn"]
    /\ held' = Release(t, {"removed_spec"})
    /\ UNCHANGED <<dynamic, dyn_poisoned, removed_spec, spec, logs, last>>
    /\ UNCHANGED lib_vars

\* get_config, lines 144-148: the items of the store under the guard of dynamic
conc_config_dynamic(t) ==
    /\ pc[t].at = "config:dynamic"
    /\ \E order \in Orders(dynamic) :
          last' = Managed("get_config", "GET", ConfigPath, NoneV, NoneV, NoneV,
                          pc[t].acc \o [i \in 1..Cardinality(dynamic) |->
                                          ConfigDynamicItem(order[i])])
    /\ held' = Release(t, {"dynamic"})
    /\ pc' = [pc EXCEPT ![t] = Idle]
    /\ UNCHANGED <<dynamic, dyn_poisoned, removed_spec, spec, logs>>
    /\ UNCHANGED lib_vars

\* get_logs, lines 152-153, and clear_logs, line 157, under the guard of logs
conc_logs(t) ==
    /\ pc[t].at \in {"logs:read", "clear:run"}
    /\ IF pc[t].at = "logs:read"
       THEN /\ last' = Managed("get_logs", "GET", LogsPath, NoneV, NoneV, NoneV, logs)
            /\ UNCHANGED logs
       ELSE /\ last' = Managed("clear_logs", "DELETE", LogsPath, NoneV, NoneV, NoneV,
                               "cleared")
            /\ logs' = <<>>
    /\ held' = Release(t, {"logs"})
    /\ pc' = [pc EXCEPT ![t] = Idle]
    /\ UNCHANGED <<dynamic, dyn_poisoned, removed_spec, spec>>
    /\ UNCHANGED lib_vars

\* an import that drops the guard of the store after each insert and locks
\* again for the next one
conc_import_unlocks_between(t) ==
    LET entries == import_endpoints(from_value(pc[t].ep[1]).doc)
        n == Len(pc[t].acc)
    IN  /\ pc[t].at = "import:insert"
        /\ IF n < Len(entries)
           THEN /\ dynamic' = map_insert(dynamic, entries[n + 1].key, entries[n + 1].ep)
                /\ pc' = Settle([pc EXCEPT ![t].acc = Append(@, entries[n + 1]),
                                           ![t].at = "import:lock"], dynamic')
                /\ held' = Release(t, {"dynamic"})
                /\ UNCHANGED last
           ELSE /\ held' = Release(t, {"dynamic"})
                /\ last' = Managed("import_openapi", "POST", ImportPath, NoneV, pc[t].ep,
                                   NoneV,
                                   [imported |-> TRUE, count |-> Len(entries),
                                    endpoints |-> [k \in 1..Len(entries) |->
                                        [method |-> entries[k].key[1],
                                         path |-> entries[k].key[2],
                                         status |-> entries[k].ep.status]]])
                /\ pc' = [pc EXCEPT ![t] = Idle]
                /\ UNCHANGED dynamic
        /\ UNCHANGED <<dyn_poisoned, removed_spec, spec, logs>>
        /\ UNCHANGED lib_vars

\* import_openapi, lines 179-232: one step per dyn_map.insert of the two
\* loops (acc holds the entries inserted so far), all under the guard taken
\* at line 179, then the reply; the guard is dropped when the handler returns
conc_import(t) ==
    LET entries == import_endpoints(from_value(pc[t].ep[1]).doc)
        n == Len(pc[t].acc)
    IN  /\ pc[t].at = "import:insert"
        /\ IF n < Len(entries)
           THEN /\ dynamic' = map_insert(dynamic, entries[n + 1].key, entries[n + 1].ep)
                /\ pc' = Settle([pc EXCEPT ![t].acc = Append(@, entries[n + 1])], dynamic')
                /\ UNCHANGED <<held, last>>
           ELSE /\ held' = Release(t, {"dynamic"})
                /\ last' = Managed("import_openapi", "POST", ImportPath, NoneV, pc[t].ep,
                                   NoneV,
                                   [imported |-> TRUE, count |-> Len(entries),
                                    endpoints |-> [k \in 1..Len(entries) |->
                                        [method |-> entries[k].key[1],
                                         path |-> entries[k].key[2],
                                         status |-> entries[k].ep.status]]])
                /\ pc' = [pc EXCEPT ![t] = Idle]
                /\ UNCHANGED dynamic
        /\ UNCHANGED <<dyn_poisoned, removed_spec, spec, logs>>
        /\ UNCHANGED lib_vars

\* export_openapi, lines 239-301, under the guard of dynamic
conc_export(t) ==
    /\ pc[t].at = "export:build"
    /\ \E last_of \in ExportWinners(dynamic) :
          last' = Managed("export_openapi", "GET", ExportPath, NoneV, NoneV, NoneV,
                          export_doc(dynamic, last_of))
    /\ held' = Release(t, {"dynamic"})
    /\ pc' = [pc EXCEPT ![t] = Idle]
    /\ UNCHANGED <<dynamic, dyn_poisoned, removed_spec, spec, logs>>
    /\ UNCHANGED lib_vars

\* dispatch, lines 312-326: the `if let` on the guard of dynamic; the guard is
\* dropped when the statement ends, or when the unwrap of line 313 or of
\* get_operation panics
conc_dispatch_lookup(t) ==
    LET method == to_uppercase(pc[t].key[1][1])
        path == pc[t].key[1][2]
        out == dispatch_response(dynamic, spec, method, path)
        in_then == find_endpoint(dynamic, method, path) # NoneV
    IN  /\ pc[t].at = "dispatch:lookup"
        /\ held' = Release(t, {"dynamic"})
        /\ IF out.outcome = "reply"
           THEN /\ pc' = [pc EXCEPT ![t].out = Some(out), ![t].at = "dispatch:lock_logs"]
                /\ UNCHANGED <<last, dyn_poisoned>>
           ELSE /\ pc' = [pc EXCEPT ![t] = Idle]
                /\ last' = out
                /\ dyn_poisoned' \in IF in_then THEN {TRUE} ELSE {TRUE, FALSE}
        /\ UNCHANGED <<dynamic, removed_spec, spec, logs>>
        /\ UNCHANGED lib_vars

\* dispatch, lines 327-330: the push under the guard of logs, then the reply
conc_dispatch_push(t) ==
    /\ pc[t].at = "dispatch:push"
    /\ logs' = Append(logs, RequestLog(pc[t].out[1].req_method, pc[t].out[1].req_path,
                                       pc[t].out[1].status))
    /\ held' = Release(t, {"logs"})
    /\ last' = pc[t].out[1]
    /\ pc' = [pc EXCEPT ![t] = Idle]
    /\ UNCHANGED <<dynamic, dyn_poisoned, removed_spec, spec>>
    /\ UNCHANGED lib_vars

\* the keys the administering client adds and deletes
ConcKeys == { <<"GET", PathUA>>, <<"GET", PathTpl>> }

\* worker 1 serves the client that administers the mock, worker 2 the client
\* that calls it and reads its snapshots
ConcCalls(t) ==
    IF t = 1 THEN
        { [h |-> "add_endpoint", key |-> Some(k),
           ep |-> Some(DynamicEndpoint("r1", 200, NoneV))] : k \in ConcKeys }
        \cup { [h |-> "remove_endpoint", key |-> Some(k), ep |-> NoneV] : k \in ConcKeys }
        \cup { [h |-> "clear_logs", key |-> NoneV, ep |-> NoneV] }
        \cup { [h |-> "import_openapi", key |-> NoneV, ep |-> Some(j)] :
                  j \in { JsonInvalid,
                           JsonDoc(<<JsonPath(PathUA, {JsonOp("get", {JsonResponse(201, NoneV)})}),
                                     JsonPath(PathTpl, {JsonOp("get", {JsonResponse(200, Some("ex1"))})})>>) } }
    ELSE
        { [h |-> "dispatch", key |-> Some(<<"GET", PathUA>>), ep |-> NoneV] }
        \cup { [h |-> x, key |-> NoneV, ep |-> NoneV] :
                  x \in {"get_config", "get_logs", "export_openapi"} }

\* a step of the handler worker t runs, between two lock() calls or up to
\* its reply
conc_step(t) ==
    \/ conc_add(t)
    \/ conc_remove(t)
    \/ conc_config_spec(t)
    \/ conc_config_dynamic(t)
    \/ conc_logs(t)
    \/ conc_import(t)
    \/ conc_export(t)
    \/ conc_dispatch_lookup(t)
    \/ conc_dispatch_push(t)

ConcNext ==
    \E t \in Threads :
        \/ \E c \in ConcCalls(t) : conc_call(t, c.h, c.key, c.ep)
        \/ conc_lock(t)
        \/ conc_step(t)

SpecConc == Init /\ [][ConcNext]_vars

\* the handlers that take more than one lock (delete, config, dispatch) and
\* clear_logs, each of them on either worker
ConcFairNext ==
    \E t \in Threads :
        \/ conc_call(t, "remove_endpoint", Some(<<"GET", PathTpl>>), NoneV)
        \/ \E h \in {"get_config", "clear_logs"} : conc_call(t, h, NoneV, NoneV)
        \/ conc_call(t, "dispatch", Some(<<"GET", PathUA>>), NoneV)
        \/ conc_lock(t)
        \/ conc_remove(t)
        \/ conc_config_spec(t)
        \/ conc_config_dynamic(t)
        \/ conc_logs(t)
        \/ conc_dispatch_lookup(t)
        \/ conc_dispatch_push(t)

\* a worker that can run its handler does run it (the handlers do not await
\* between their lock() calls), and a worker waiting in lock() gets the mutex
\* if the mutex becomes free again and again; a client need not send requests
SpecConcFair ==
    /\ Init
    /\ [][ConcFairNext]_vars
    /\ \A t \in Threads : WF_vars(conc_step(t)) /\ SF_vars(conc_lock(t))

(***************************************************************************)
(* The path matcher of get_operation, applied by dispatch to the templates *)
(* of the OpenAPI document the server was started with.                    *)
(***************************************************************************)
\* path templates of the documents: a literal, one and two placeholders, a
\* literal with a '.', and a '{' without its '}'
MatchTemplates ==
    { <<"/", "u", "/", "a">>,
      <<"/", "u", "/", "{", "i", "}">>,
      <<"/", "u", "/", "{", "i", "}", "/", "{", "k", "}">>,
      <<"/", "u", ".", "a">>,
      <<"/", "u", "/", "{", "i">> }

\* request paths
MatchPaths ==
    { <<"/", "u", "/", "a">>,
      <<"/", "u", "/", "A">>,
      <<"/", "u", "/">>,
      <<"/", "u", "/", "a", "/", "x">>,
      <<"/", "u", "x", "a">>,
      <<"/", "u", ".", "a">>,
      <<"/", "u", "/", "/", "x">> }

\* OPENAPI_FILE: one path with a GET operation
MatchDocs ==
    { Some(<<[tpl |-> t, item |-> PathItem(Operation({Response(200, Some("ex1"))}), NoOp)]>>) :
          t \in MatchTemplates }

MatchInit ==
    /\ dynamic = {}
    /\ dyn_poisoned = FALSE
    /\ removed_spec = {}
    /\ spec \in MatchDocs
    /\ logs = <<>>
    /\ last = NoRequest
    /\ lib_dynamic = {}
    /\ default_proxy = NoneV
    /\ lib_logs = <<>>
    /\ lib_last = LibStart
    /\ pc = [t \in Threads |-> Idle]
    /\ held = [m \in Mutexes |-> 0]

MatchNext ==
    \/ \E m \in Methods, p \in MatchPaths : dispatch(m, p)
    \/ clear_logs
    \/ get_logs

SpecMatch == MatchInit /\ [][MatchNext]_vars

(***************************************************************************)
(* The library server (start_server of src/bin/server.rs), after spec.md   *)
(* 3, 4.1, 4.2, 4.4, 4.5 and 4.6: endpoints carry an optional proxy_url,   *)
(* the store is searched exactly and then by template, and a default proxy *)
(* URL catches what no endpoint matches.                                   *)
(***************************************************************************)
ProxyUrls == {"http://up"}

DefaultUrls == {"http://def"}

\* what clients post to /__mock/proxy as url
UrlInputs == DefaultUrls \cup {"", " "}

\* 4.6: an empty or whitespace-only url clears the cell
is_blank(url) == url \in {"", " "}

\* DynamicEndpoint of the library: { response, status, headers, proxyUrl }
LibEndpoint(response, status, headers, proxy_url) ==
    [response |-> response, status |-> status, headers |-> headers,
     proxy_url |-> proxy_url]

LibKeys == { <<"GET", PathUA>>, <<"GET", PathTpl>>, <<"POST", PathTpl>> }

LibBodies ==
    { [response |-> "r1", status |-> NoneV,     proxy_url |-> NoneV],
      [response |-> "r2", status |-> Some(201), proxy_url |-> NoneV],
      [response |-> "r2", status |-> Some(200), proxy_url |-> Some("http://up")] }

\* 4.2: matches(template, path); a template that does not compile matches nothing
lib_matches(tpl, path) ==
    LET re == regex_new(tpl)
    IN  re.ok /\ is_match(re, path)

\* 4.1 lookupExact then lookupTemplate, one critical section: the entries a
\* dispatch may be answered from ("any match" among the templates)
lib_lookup(map, method, path) ==
    LET exact == {e \in map : e.key = <<method, path>>}
        tpls == {e \in map : e.key[1] = method /\ lib_matches(e.key[2], path)}
    IN  IF exact # {}
        THEN {[how |-> "exact", entry |-> e] : e \in exact}
        ELSE {[how |-> "template", entry |-> e] : e \in tpls}

\* 4.5 step 5: the first example under 200, 201, 204, 202
lib_extract_example(op) ==
    LET ex(st) == {r \in op.responses : r.status = st /\ r.example # NoneV}
        one(st) == (CHOOSE r \in ex(st) : TRUE).example
    IN  IF ex(200) # {} THEN one(200)
        ELSE IF ex(201) # {} THEN one(201)
        ELSE IF ex(204) # {} THEN one(204)
        ELSE IF ex(202) # {} THEN one(202)
        ELSE NoneV

\* 4.4: what the single outbound call returns
UpstreamFailed == [ok |-> FALSE, status |-> 0, body |-> NoneV]

UpstreamReplies ==
    { [ok |-> TRUE, status |-> 200, body |-> Some(to_json("r2"))],
      [ok |-> TRUE, status |-> 404, body |-> NoneV] }

UpstreamOutcomes == UpstreamReplies \cup {UpstreamFailed}

NoCall ==
    [made |-> FALSE, attempts |-> 0, url |-> "", path |-> <<>>, got |-> UpstreamFailed,
     inbound |-> {}, headers |-> {}]

\* one outbound call to url with the request's path; attempts counts the
\* outbound requests made for it, inbound and headers are the headers of the
\* request and those of the outbound request (set by the dispatcher)
Call(url, path, got) ==
    [made |-> TRUE, attempts |-> 1, url |-> url, path |-> path, got |-> got,
     inbound |-> {}, headers |-> {}]

LibOutcome(op, method, path, status, body, ctype, branch, matched, call) ==
    [op |-> op, method |-> method, path |-> path, status |-> status,
     body |-> body, ctype |-> ctype, branch |-> branch, matched |-> matched,
     call |-> call]

\* a forward that calls the upstream a second time when the first call fails
lib_forward_retries(method, path, url, branch, matched, up) ==
    IF up.ok
    THEN LibOutcome("dispatch", method, path, up.status, up.body,
                    IF up.body = NoneV THEN NoneV ELSE Some("application/json"),
                    branch, matched, Call(url, path, up))
    ELSE LibOutcome("dispatch", method, path, 502,
                    Some(to_json(IF branch = "proxy" THEN "Proxy request failed"
                                 ELSE "Default proxy request failed")),
                    Some("application/json"), branch, matched,
                    [Call(url, path, up) EXCEPT !.attempts = 2])

\* 4.4 + 4.5: forward to url and relay the upstream's answer, or reply 502
lib_forward(method, path, url, branch, matched, up) ==
    IF up.ok
    THEN LibOutcome("dispatch", method, path, up.status, up.body,
                    IF up.body = NoneV THEN NoneV ELSE Some("application/json"),
                    branch, matched, Call(url, path, up))
    ELSE LibOutcome("dispatch", method, path, 502,
                    Some(to_json(IF branch = "proxy" THEN "Proxy request failed"
                                 ELSE "Default proxy request failed")),
                    Some("application/json"), branch, matched, Call(url, path, up))

\* 4.5 steps 1-3: the reply for the entry h the store lookup chose; an
\* endpoint with proxy_url forwards, any other returns its canned response
lib_from_endpoint_canned(h, method, path, up) ==
    LibOutcome("dispatch", method, path, h.entry.ep.status,
               Some(to_json(h.entry.ep.response)), Some("application/json"),
               h.how, Some(h.entry.key), NoCall)

lib_from_endpoint(h, method, path, up) ==
    IF h.entry.ep.proxy_url # NoneV
    THEN lib_forward(method, path, h.entry.ep.proxy_url[1], "proxy", Some(h.entry.key), up)
    ELSE LibOutcome("dispatch", method, path, h.entry.ep.status,
                    Some(to_json(h.entry.ep.response)), Some("application/json"),
                    h.how, Some(h.entry.key), NoCall)

\* 4.5 step 5: the OpenAPI document defines the operation
lib_has_operation(doc, method, path) ==
    doc # NoneV /\ get_operation(doc[1], method, path).kind = "Some"

\* 4.5 step 5: 200 with the example, or 200 with an empty body
lib_from_spec(doc, method, path) ==
    LET example == lib_extract_example(get_operation(doc[1], method, path).op)
    IN  LibOutcome("dispatch", method, path, 200,
                   IF example = NoneV THEN NoneV ELSE Some(to_json(example[1])),
                   IF example = NoneV THEN NoneV ELSE Some("application/json"),
                   "spec", NoneV, NoCall)

\* 4.5 step 6
lib_not_found(method, path) ==
    LibOutcome("dispatch", method, path, 404, NoneV, NoneV, "notfound", NoneV, NoCall)

\* a cascade that consults the default proxy before the store
lib_cascade_default_first(hit, dflt, doc, method, path, up) ==
    IF dflt # NoneV THEN
        lib_forward(method, path, dflt[1], "default_proxy", NoneV, up)
    ELSE IF hit # {} THEN
        lib_from_endpoint(CHOOSE x \in hit : TRUE, method, path, up)
    ELSE IF lib_has_operation(doc, method, path) THEN
        lib_from_spec(doc, method, path)
    ELSE lib_not_found(method, path)

\* a cascade that consults the OpenAPI document before the default proxy
lib_cascade_spec_first(hit, dflt, doc, method, path, up) ==
    IF hit # {} THEN
        lib_from_endpoint(CHOOSE x \in hit : TRUE, method, path, up)
    ELSE IF lib_has_operation(doc, method, path) THEN
        lib_from_spec(doc, method, path)
    ELSE IF dflt # NoneV THEN
        lib_forward(method, path, dflt[1], "default_proxy", NoneV, up)
    ELSE lib_not_found(method, path)

\* 4.5: the cascade, for the entry `hit` chosen by the store lookup (a set of
\* at most one choice) and the upstream outcome `up`
lib_cascade(hit, dflt, doc, method, path, up) ==
    IF hit # {} THEN
        lib_from_endpoint(CHOOSE x \in hit : TRUE, method, path, up)
    ELSE IF dflt # NoneV THEN
        lib_forward(method, path, dflt[1], "default_proxy", NoneV, up)
    ELSE IF lib_has_operation(doc, method, path) THEN
        lib_from_spec(doc, method, path)
    ELSE lib_not_found(method, path)

\* a tag that is null for every reply that is not an endpoint's canned one
matched_endpoint_canned_only(out) ==
    CASE out.branch = "exact"    -> Some(<<"path", out.matched[1][2]>>)
      [] out.branch = "template" -> Some(<<out.matched[1][2], "(template)">>)
      [] OTHER                   -> NoneV

\* 4.5: matchedEndpoint, one of the concrete path (exact match),
\* "<template> (template)", "proxy to <url>", "default proxy to <url>",
\* "OpenAPI spec", or null for 404
matched_endpoint(out) ==
    CASE out.branch = "exact"         -> Some(<<"path", out.matched[1][2]>>)
      [] out.branch = "template"      -> Some(<<out.matched[1][2], "(template)">>)
      [] out.branch = "proxy"         -> Some(<<"proxy to", out.call.url>>)
      [] out.branch = "default_proxy" -> Some(<<"default proxy to", out.call.url>>)
      [] out.branch = "spec"          -> Some(<<"OpenAPI spec">>)
      [] OTHER                        -> NoneV

\* TraceEntry { method, path, status, responseBody, matchedEndpoint, proxiedTo };
\* branch is the step of the cascade that built the reply
TraceEntry(out) ==
    [method |-> out.method, path |-> out.path, status |-> out.status,
     body |-> out.body, branch |-> out.branch,
     matched_endpoint |-> matched_endpoint(out),
     proxied_to |-> IF out.call.made THEN Some(<<out.call.url, out.call.path>>) ELSE NoneV]

\* header names are sequences of characters; ASCII lower-casing of one
LowerChar(c) ==
    CASE c = "A" -> "a" [] c = "C" -> "c" [] c = "D" -> "d" [] c = "E" -> "e"
      [] c = "F" -> "f" [] c = "G" -> "g" [] c = "H" -> "h" [] c = "I" -> "i"
      [] c = "N" -> "n" [] c = "O" -> "o" [] c = "R" -> "r" [] c = "S" -> "s"
      [] c = "T" -> "t" [] c = "X" -> "x"
      [] OTHER -> c

lower_name(name) == [i \in 1..Len(name) |-> LowerChar(name[i])]

\* 4.4: the hop-by-hop deny-list {host, connection, transfer-encoding, accept-encoding}
DenyList ==
    { <<"h", "o", "s", "t">>,
      <<"c", "o", "n", "n", "e", "c", "t", "i", "o", "n">>,
      <<"t", "r", "a", "n", "s", "f", "e", "r", "-", "e", "n", "c", "o", "d", "i", "n", "g">>,
      <<"a", "c", "c", "e", "p", "t", "-", "e", "n", "c", "o", "d", "i", "n", "g">> }

Header(name, value) == [name |-> name, value |-> value]

\* a filter that compares the names as they were sent
forward_headers_case_sensitive(inbound) == {h \in inbound : h.name \notin DenyList}

\* 4.4 header forwarding: every inbound header whose lower-cased name is not
\* in the deny-list
forward_headers(inbound) == {h \in inbound : lower_name(h.name) \notin DenyList}

\* the header sets of the requests clients send
InboundHeaders ==
    { {},
      { Header(<<"a", "c", "c", "e", "p", "t", "-", "e", "n", "c", "o", "d", "i", "n", "g">>, "gzip"),
        Header(<<"x", "-", "i", "d">>, "1") },
      { Header(<<"H", "O", "S", "T">>, "h"),
        Header(<<"C", "o", "n", "n", "e", "c", "t", "i", "o", "n">>, "close"),
        Header(<<"T", "r", "a", "n", "s", "f", "e", "r", "-", "E", "n", "c", "o", "d", "i", "n", "g">>, "chunked"),
        Header(<<"A", "c", "c", "e", "p", "t", "-", "E", "n", "c", "o", "d", "i", "n", "g">>, "br"),
        Header(<<"a", "c", "c", "e", "p", "t">>, "json") } }

\* 4.5 dispatcher of the library server; a forward carries the filtered
\* headers of the request
lib_dispatch(method, path, headers, up) ==
    LET found == lib_lookup(lib_dynamic, method, path)
    IN  /\ Len(lib_logs) < MaxLogs
        /\ \E hit \in (IF found = {} THEN {{}} ELSE {{x} : x \in found}) :
              LET made == lib_cascade(hit, default_proxy, spec, method, path, up)
                  out == IF made.call.made
                         THEN [made EXCEPT !.call.inbound = headers,
                                           !.call.headers = forward_headers(headers)]
                         ELSE made
              IN  /\ lib_last' = out
                  /\ lib_logs' = Append(lib_logs, TraceEntry(out))
        /\ UNCHANGED <<lib_dynamic, default_proxy, spec>>
        /\ UNCHANGED <<main_vars, conc_vars>>

\* 4.6 add: POST /__mock/endpoints {method, path, response, status?, headers?, proxy_url?}
lib_add_endpoint(method, path, response, status_in, proxy_url) ==
    LET key == <<to_uppercase(method), path>>
        ep == LibEndpoint(response, IF status_in = NoneV THEN 200 ELSE status_in[1],
                          NoneV, proxy_url)
    IN  /\ contains_key(lib_dynamic, key) \/ Cardinality(lib_dynamic) < MaxEndpoints
        /\ lib_dynamic' = map_insert(lib_dynamic, key, ep)
        /\ lib_last' = LibOutcome("add_endpoint", "POST", EndpointsPath, 200,
                                  Some(to_json("added")), Some("application/json"),
                                  "management", Some(key), NoCall)
        /\ UNCHANGED <<default_proxy, lib_logs, spec>>
        /\ UNCHANGED <<main_vars, conc_vars>>

ProxyPath == MockPrefix \o <<"/", "p", "r", "o", "x", "y">>

\* 6: {"proxy_url": string|null, "enabled": bool}
ProxyConfig(cell) == [proxy_url |-> cell, enabled |-> cell # NoneV]

\* a set that stores a blank url like any other
set_proxy_keeps_blank(url) ==
    /\ default_proxy' = Some(url)
    /\ lib_last' = LibOutcome("set_proxy", "POST", ProxyPath, 200,
                              Some(to_json(ProxyConfig(default_proxy'))),
                              Some("application/json"), "management", Some(url), NoCall)
    /\ UNCHANGED <<lib_dynamic, lib_logs, spec>>
    /\ UNCHANGED <<main_vars, conc_vars>>

\* 4.6 proxy set: POST /__mock/proxy {url}; the reply has the shape of the
\* reply of proxy get; `matched` of the outcome holds the url of the request
set_proxy(url) ==
    /\ default_proxy' = IF is_blank(url) THEN NoneV ELSE Some(url)
    /\ lib_last' = LibOutcome("set_proxy", "POST", ProxyPath, 200,
                              Some(to_json(ProxyConfig(default_proxy'))),
                              Some("application/json"), "management", Some(url), NoCall)
    /\ UNCHANGED <<lib_dynamic, lib_logs, spec>>
    /\ UNCHANGED <<main_vars, conc_vars>>

\* 4.6 proxy get: GET /__mock/proxy
get_proxy ==
    /\ lib_last' = LibOutcome("get_proxy", "GET", ProxyPath, 200,
                              Some(to_json(ProxyConfig(default_proxy))),
                              Some("application/json"), "management", NoneV, NoCall)
    /\ UNCHANGED <<lib_dynamic, default_proxy, lib_logs, spec>>
    /\ UNCHANGED <<main_vars, conc_vars>>

\* 4.6 proxy delete: DELETE /__mock/proxy
delete_proxy ==
    /\ default_proxy' = NoneV
    /\ lib_last' = LibOutcome("delete_proxy", "DELETE", ProxyPath, 200,
                              Some(to_json("deleted")), Some("application/json"),
                              "management", NoneV, NoCall)
    /\ UNCHANGED <<lib_dynamic, lib_logs, spec>>
    /\ UNCHANGED <<main_vars, conc_vars>>

\* 4.6 logs clear: DELETE /__mock/logs
lib_clear_logs ==
    /\ lib_logs' = <<>>
    /\ lib_last' = LibOutcome("clear_logs", "DELETE", LogsPath, 200,
                              Some(to_json("cleared")), Some("application/json"),
                              "management", NoneV, NoCall)
    /\ UNCHANGED <<lib_dynamic, default_proxy, spec>>
    /\ UNCHANGED <<main_vars, conc_vars>>

LibNext ==
    \/ \E k \in LibKeys, c \in LibBodies :
           lib_add_endpoint(k[1], k[2], c.response, c.status, c.proxy_url)
    \/ \E u \in UrlInputs : set_proxy(u)
    \/ delete_proxy
    \/ get_proxy
    \/ lib_clear_logs
    \/ \E m \in Methods, p \in {PathUA}, h \in InboundHeaders, up \in UpstreamOutcomes :
           lib_dispatch(m, p, h, up)

\* ServerConfig.default_proxy_url (--default-proxy-url, DEFAULT_PROXY_URL): the
\* DefaultProxyUrl the server starts with
StartProxy == {NoneV} \cup {Some(u) : u \in DefaultUrls}

\* the state start_server(config) begins in
LibInit ==
    /\ dynamic = {}
    /\ dyn_poisoned = FALSE
    /\ removed_spec = {}
    /\ spec \in SpecDocs
    /\ logs = <<>>
    /\ last = NoRequest
    /\ lib_dynamic = {}
    /\ default_proxy \in StartProxy
    /\ lib_logs = <<>>
    /\ lib_last = LibStart
    /\ pc = [t \in Threads |-> Idle]
    /\ held = [m \in Mutexes |-> 0]

SpecLib == LibInit /\ [][LibNext]_vars

(***************************************************************************)
(* Properties.                                                             *)
(***************************************************************************)
(* The library server with handlers running at the same time.  A           *)
(* management call is one critical section under the one mutex it uses.    *)
(* The dispatcher clones what it needs out of each critical section: the   *)
(* store lookup (lookupExact, then lookupTemplate), the read of the        *)
(* default-proxy cell, the append to the trace; the upstream call is made  *)
(* between them.                                                           *)
(***************************************************************************)
\* worker t takes a request for the dispatcher; the trace has room for the
\* entries of the dispatches that are running
libc_call(t, method, path, headers) ==
    /\ pc[t] = Idle
    /\ Len(lib_logs) + Cardinality({u \in Threads : pc[u].h = "lib_dispatch"}) < MaxTrace
    /\ pc' = [pc EXCEPT ![t] = [Idle EXCEPT !.h = "lib_dispatch", !.at = "lib:lock_store",
                                            !.key = Some(<<method, path>>),
                                            !.ep = Some(headers)]]
    /\ UNCHANGED <<held, spec, main_vars, lib_vars>>

\* whether the cascade forwards for the entry `hit` and the default proxy dflt
lib_forwards(hit, dflt, doc, method, path) ==
    lib_cascade(hit, dflt, doc, method, path, UpstreamFailed).call.made

\* a lookup that keeps the guard of the store until the reply is built
libc_lookup_keeps_guard(t) ==
    LET method == pc[t].key[1][1]
        path == pc[t].key[1][2]
        found == lib_lookup(lib_dynamic, method, path)
    IN  /\ pc[t].at = "lib:lookup"
        /\ \E hit \in (IF found = {} THEN {{}} ELSE {{x} : x \in found}) :
              pc' = [pc EXCEPT ![t].acc = <<hit, NoneV>>,
                               ![t].at = IF hit = {} THEN "lib:lock_proxy"
                                         ELSE IF lib_forwards(hit, NoneV, spec, method, path)
                                         THEN "lib:forward"
                                         ELSE "lib:reply"]
        /\ UNCHANGED held
        /\ UNCHANGED <<spec, main_vars, lib_vars>>

\* 4.1, 4.5 steps 1-3: the store lookup, one critical section that returns a
\* clone of the entry; the guard is dropped before anything else is done
libc_lookup(t) ==
    LET method == pc[t].key[1][1]
        path == pc[t].key[1][2]
        found == lib_lookup(lib_dynamic, method, path)
    IN  /\ pc[t].at = "lib:lookup"
        /\ \E hit \in (IF found = {} THEN {{}} ELSE {{x} : x \in found}) :
              pc' = [pc EXCEPT ![t].acc = <<hit, NoneV>>,
                               ![t].at = IF hit = {} THEN "lib:lock_proxy"
                                         ELSE IF lib_forwards(hit, NoneV, spec, method, path)
                                         THEN "lib:forward"
                                         ELSE "lib:reply"]
        /\ held' = Release(t, {"store"})
        /\ UNCHANGED <<spec, main_vars, lib_vars>>

\* 4.5 step 4: the read of the default-proxy cell, when the store has no match
libc_read_proxy(t) ==
    /\ pc[t].at = "lib:read_proxy"
    /\ pc' = [pc EXCEPT ![t].acc = <<{}, default_proxy>>,
                        ![t].at = IF default_proxy # NoneV THEN "lib:forward"
                                  ELSE "lib:reply"]
    /\ held' = Release(t, {"proxy"})
    /\ UNCHANGED <<spec, main_vars, lib_vars>>

\* the reply of the cascade for what the dispatch has read; with a forward,
\* up is what the outbound call returned
libc_reply(t, up) ==
    LET method == pc[t].key[1][1]
        path == pc[t].key[1][2]
        made == lib_cascade(pc[t].acc[1], pc[t].acc[2], spec, method, path, up)
    IN  IF made.call.made
        THEN [made EXCEPT !.call.inbound = pc[t].ep[1],
                          !.call.headers = forward_headers(pc[t].ep[1])]
        ELSE made

\* 4.4: the outbound call in flight returns (or fails)
libc_forward(t, up) ==
    /\ pc[t].at = "lib:forward"
    /\ pc' = [pc EXCEPT ![t].out = Some(libc_reply(t, up)), ![t].at = "lib:lock_trace"]
    /\ UNCHANGED <<held, spec, main_vars, lib_vars>>

\* 4.5 steps 3, 5, 6: a reply built without an outbound call
libc_local(t) ==
    /\ pc[t].at = "lib:reply"
    /\ pc' = [pc EXCEPT ![t].out = Some(libc_reply(t, UpstreamFailed)),
                        ![t].at = "lib:lock_trace"]
    /\ UNCHANGED <<held, spec, main_vars, lib_vars>>

\* 4.5: the trace entry is appended and the reply is sent; every guard the
\* dispatch still has is dropped when it returns
libc_append(t) ==
    /\ pc[t].at = "lib:append"
    /\ lib_logs' = Append(lib_logs, TraceEntry(pc[t].out[1]))
    /\ lib_last' = pc[t].out[1]
    /\ held' = Release(t, Mutexes)
    /\ pc' = [pc EXCEPT ![t] = Idle]
    /\ UNCHANGED <<lib_dynamic, default_proxy, spec>>
    /\ UNCHANGED main_vars

\* the endpoints the administering client adds while dispatches run
LibcBodies ==
    { [response |-> "r1", status |-> NoneV,     proxy_url |-> NoneV],
      [response |-> "r2", status |-> Some(200), proxy_url |-> Some("http://up")] }

\* a management call on worker t: one critical section under its mutex;
\* worker 1 serves the client that administers the mock
libc_manage(t) ==
    /\ t = 1
    /\ pc[t] = Idle
    /\ \/ /\ held["store"] = 0
          /\ \E k \in ConcKeys, c \in LibcBodies :
                lib_add_endpoint(k[1], k[2], c.response, c.status, c.proxy_url)
       \/ /\ held["proxy"] = 0
          /\ \/ \E u \in UrlInputs : set_proxy(u)
             \/ delete_proxy
             \/ get_proxy
       \/ /\ held["trace"] = 0
          /\ lib_clear_logs

LibConcNext ==
    \E t \in Threads :
        \/ libc_manage(t)
        \/ libc_call(t, "GET", PathUA, {})
        \/ conc_lock(t)
        \/ libc_lookup(t)
        \/ libc_read_proxy(t)
        \/ \E up \in UpstreamOutcomes : libc_forward(t, up)
        \/ libc_local(t)
        \/ libc_append(t)

SpecLibConc == LibInit /\ [][LibConcNext]_vars

(***************************************************************************)
\* the entries of the library store a dispatch of the last request may be
\* answered from
LibFound == lib_lookup(lib_dynamic, lib_last.method, lib_last.path)

LibCanned(ep) ==
    /\ lib_last.status = ep.status
    /\ lib_last.body = Some(to_json(ep.response))
    /\ lib_last.ctype = Some("application/json")

\* C1: a request that matches a dynamic endpoint is always answered from a
\* matching endpoint, never by the default proxy; when the endpoint it is
\* answered from has no proxyUrl the reply is that endpoint's canned response
\* (stored status, stored body, application/json) and no outbound call is
\* made, whether or not DefaultProxyUrl is set.
C1_MockBeforeDefaultProxy ==
    (lib_last.op = "dispatch" /\ LibFound # {}) =>
        /\ \E x \in LibFound : lib_last.matched = Some(x.entry.key)
        /\ \A x \in LibFound :
              (lib_last.matched = Some(x.entry.key) /\ x.entry.ep.proxy_url = NoneV) =>
                  /\ LibCanned(x.entry.ep)
                  /\ ~lib_last.call.made
                  /\ lib_last.branch \in {"exact", "template"}

\* C1 witness: with DefaultProxyUrl set, a request matched by template was
\* answered with the canned response and without an outbound call
C1_Witness ==
    /\ default_proxy # NoneV
    /\ lib_last.op = "dispatch"
    /\ lib_last.branch = "template"
    /\ lib_last.body = Some(to_json("r1"))
    /\ ~lib_last.call.made

\* C3: when the endpoint a request is answered from has proxyUrl set, one
\* outbound call goes to that proxyUrl with the request path, and the reply
\* is the upstream's status and body (or 502 when the call fails), never the
\* stored response.
C3_ForwarderIgnoresCanned ==
    (lib_last.op = "dispatch") =>
        \A x \in LibFound :
            (lib_last.matched = Some(x.entry.key) /\ x.entry.ep.proxy_url # NoneV) =>
                /\ lib_last.call.made
                /\ lib_last.call.url = x.entry.ep.proxy_url[1]
                /\ lib_last.call.path = lib_last.path
                /\ lib_last.branch = "proxy"
                /\ IF lib_last.call.got.ok
                   THEN /\ lib_last.status = lib_last.call.got.status
                        /\ lib_last.body = lib_last.call.got.body
                   ELSE /\ lib_last.status = 502
                        /\ lib_last.body = Some(to_json("Proxy request failed"))

\* C3 witness: an endpoint stored with status 200 and proxyUrl relayed the
\* upstream's 404
C3_Witness ==
    /\ lib_last.op = "dispatch"
    /\ lib_last.branch = "proxy"
    /\ lib_last.call.got.ok
    /\ lib_last.status = 404
    /\ \E e \in lib_dynamic :
          e.key = <<lib_last.method, lib_last.path>> /\ e.ep.status = 200

\* C4: when no dynamic endpoint matches and DefaultProxyUrl is set the request
\* is forwarded to DefaultProxyUrl; while DefaultProxyUrl is set no request is
\* answered by the OpenAPI-example branch or by the 404 branch.
C4_DefaultProxyCatchesAll ==
    (lib_last.op = "dispatch" /\ default_proxy # NoneV) =>
        /\ lib_last.branch \notin {"spec", "notfound"}
        /\ LibFound = {} =>
              /\ lib_last.branch = "default_proxy"
              /\ lib_last.call.made
              /\ lib_last.call.url = default_proxy[1]
              /\ lib_last.call.path = lib_last.path

\* C4 witness: the OpenAPI document defines the requested operation, no
\* endpoint matches, and the request went to the default proxy
C4_Witness ==
    /\ lib_last.op = "dispatch"
    /\ default_proxy # NoneV
    /\ LibFound = {}
    /\ spec # NoneV
    /\ get_operation(spec[1], lib_last.method, lib_last.path).kind = "Some"
    /\ lib_last.branch = "default_proxy"
    /\ lib_last.call.made

\* the key of the last dispatched request
LastKey == <<last.req_method, last.req_path>>

\* the last request got the canned response of endpoint ep
Canned(out, ep) ==
    /\ out.outcome = "reply"
    /\ out.status = ep.status
    /\ out.body = Some(to_json(ep.response))
    /\ out.ctype = Some("application/json")

\* the stored key path of entry t, read as a template, matches path
TemplateMatches(t, method, path) ==
    /\ t.key[1] = method
    /\ regex_new(t.key[2]).ok
    /\ is_match(regex_new(t.key[2]), path)

\* the OpenAPI context defines no operation for (method, path)
NoOperation(doc, method, path) ==
    doc = NoneV \/ get_operation(doc[1], method, path).kind = "None"

\* C2: when the request's (method, path) equals the key of one dynamic
\* endpoint and matches the path template of another endpoint with the same
\* method, dispatch answers from the exactly-keyed endpoint, in every store
\* state.
C2_ExactBeforeTemplate ==
    (last.op = "dispatch") =>
        \A e \in dynamic : \A t \in dynamic :
            ( /\ e.key = LastKey
              /\ t.key # e.key
              /\ TemplateMatches(t, last.req_method, last.req_path) ) =>
                (Canned(last, e.ep) /\ last.source = "dynamic")

\* C5: dispatch replies 404 with an empty body exactly when the cascade is
\* exhausted: no dynamic endpoint matches the request exactly or by template
\* and the OpenAPI context defines no operation for it (main has no default
\* proxy).
C5_NotFoundIffExhausted ==
    (last.op = "dispatch") =>
        ( (last.outcome = "reply" /\ last.status = 404 /\ last.body = NoneV)
          <=>
          ( /\ ~contains_key(dynamic, LastKey)
            /\ ~\E t \in dynamic : TemplateMatches(t, last.req_method, last.req_path)
            /\ NoOperation(spec, last.req_method, last.req_path) ) )

\* C6: after add(K, E1) followed by add(K, E2) the store holds exactly one
\* entry for K, that entry is E2, and a dispatch for K that follows is
\* answered from E2.
C6_LastWriteWins ==
    [][ /\ (last'.op = "add_endpoint" /\ last'.outcome = "reply" /\ last'.prior # NoneV) =>
              {e \in dynamic' : e.key = last'.key[1]} = {Entry(last'.key[1], last'.ep[1])}
        /\ ( /\ last.op = "add_endpoint" /\ last.outcome = "reply" /\ last.prior # NoneV
             /\ last'.op = "dispatch"
             /\ <<last'.req_method, last'.req_path>> = last.key[1] ) =>
              (Canned(last', last.ep[1]) /\ last'.source = "dynamic")
      ]_vars

\* C7: after add(K, E) followed by delete(K) the store has no entry for K,
\* and when the OpenAPI context defines no operation for K the request for K
\* that follows is answered 404 with an empty body.
C7_DeleteThenNotFound ==
    [][ /\ (last'.op = "remove_endpoint" /\ last'.outcome = "reply" /\ last'.prior # NoneV) =>
              ~contains_key(dynamic', last'.key[1])
        /\ ( /\ last.op = "remove_endpoint" /\ last.outcome = "reply" /\ last.prior # NoneV
             /\ last'.op = "dispatch"
             /\ <<last'.req_method, last'.req_path>> = last.key[1]
             /\ NoOperation(spec, last'.req_method, last'.req_path) ) =>
              ( /\ last'.outcome = "reply"
                /\ last'.status = 404
                /\ last'.body = NoneV )
      ]_vars

\* C7 witness: a delete evicted the endpoint stored for a key for which the
\* OpenAPI context defines no operation
C7_Witness ==
    /\ last.op = "remove_endpoint"
    /\ last.outcome = "reply"
    /\ last.prior # NoneV
    /\ ~contains_key(dynamic, last.key[1])
    /\ NoOperation(spec, last.key[1][1], last.key[1][2])

\* C8: a request matched by a dynamic endpoint is answered with the stored
\* status, the stored JSON response as body and content type
\* application/json, for every status an endpoint can be registered with.
C8_CannedResponse ==
    (last.op = "dispatch") =>
        \A e \in dynamic : (e.key = LastKey) => Canned(last, e.ep)

\* C9: every non-management request appends exactly one trace entry, which
\* carries the request's method and path and the status of the reply; no
\* request appends zero or two entries.
C9_OneTraceEntryPerRequest ==
    [][ (last'.op = "dispatch") =>
            /\ Len(logs') = Len(logs) + 1
            /\ SubSeq(logs', 1, Len(logs)) = logs
            /\ logs'[Len(logs')] =
                   RequestLog(last'.req_method, last'.req_path, last'.status)
      ]_vars

\* C10: no request under /__mock appends a trace entry or is answered from a
\* dynamic endpoint, in any store state and for any path under the prefix.
C10_ManagementBypassesDispatch ==
    /\ \A i \in 1..Len(logs) : ~in_mock_scope(logs[i].path)
    /\ ~(last.op = "dispatch" /\ in_mock_scope(last.req_path) /\ last.source = "dynamic")

\* C11: GET /__mock/logs returns exactly the trace entries appended since
\* the most recent DELETE /__mock/logs (or since startup) in the order they
\* were appended: a dispatch that replies appends its entry at the end, a
\* clear empties the trace, no other request changes it, and a read returns
\* the trace as it stands (the empty list right after a clear).
C11_LogsSinceLastClear ==
    [][ /\ (last'.op = "get_logs") =>
              (last'.body = Some(to_json(logs)) /\ logs' = logs)
        /\ (last.op = "clear_logs" /\ last'.op = "get_logs") =>
              last'.body = Some(to_json(<<>>))
        /\ (last'.op = "clear_logs") => logs' = <<>>
        /\ (last'.op = "dispatch" /\ last'.outcome = "reply") =>
              logs' = Append(logs, RequestLog(last'.req_method, last'.req_path,
                                              last'.status))
        /\ (last'.op \notin {"clear_logs", "dispatch"}) => logs' = logs
      ]_vars

\* C11 witness: a read returned two different entries in the order they were
\* appended
C11_Witness ==
    /\ last.op = "get_logs"
    /\ Len(logs) = 2
    /\ logs[1] # logs[2]
    /\ logs[1].status = 404
    /\ logs[2].status = 200
    /\ last.body = Some(to_json(logs))

\* the closed set of methods of the specification
ValidMethods == {"GET", "POST", "PUT", "PATCH", "DELETE"}

\* C12: every key of the dynamic store has an upper-case method, and the
\* store never holds two entries whose keys differ only in the case of the
\* method ("get" and "GET" address one entry).
C12_CanonicalMethod ==
    /\ \A e \in dynamic : e.key[1] = to_uppercase(e.key[1])
    /\ \A e1 \in dynamic : \A e2 \in dynamic :
          ( /\ to_uppercase(e1.key[1]) = to_uppercase(e2.key[1])
            /\ e1.key[2] = e2.key[2] ) => e1 = e2

\* C13: an add whose method, upper-cased, is outside {GET, POST, PUT, PATCH,
\* DELETE} is rejected with status 400 and leaves the dynamic store unchanged.
C13_AddRejectsUnknownMethod ==
    [][ ( /\ last'.op = "add_endpoint"
          /\ last'.key # NoneV
          /\ to_uppercase(last'.key[1][1]) \notin ValidMethods ) =>
            (last'.status = 400 /\ dynamic' = dynamic)
      ]_vars

\* C14: a delete returns removed = true exactly when it changed observable
\* state: it evicted an entry of the dynamic store or newly inserted the key
\* into the removed-spec set.
C14_RemovedIffChanged ==
    [][ (last'.op = "remove_endpoint" /\ last'.outcome = "reply") =>
            ( (last'.body = Some(to_json("removed")))
              <=>
              ( \/ /\ contains_key(dynamic, last'.key[1])
                   /\ ~contains_key(dynamic', last'.key[1])
                \/ /\ last'.key[1] \notin removed_spec
                   /\ last'.key[1] \in removed_spec' ) )
      ]_vars

\* C14 witness: a delete that changed nothing replied removed = false
C14_Witness ==
    /\ last.op = "remove_endpoint"
    /\ last.outcome = "reply"
    /\ last.prior = NoneV
    /\ last.key[1] \in removed_spec
    /\ last.body = Some(to_json("not removed"))

\* the OpenAPI document defines an operation under exactly this key
InSpec(doc, key) ==
    /\ doc # NoneV
    /\ \E i \in 1..Len(doc[1]) :
          /\ doc[1][i].tpl = key[2]
          /\ key[1] \in DOMAIN doc[1][i].item
          /\ doc[1][i].item[key[1]].defined

\* C15 (as stated): a delete for a key that is in neither the dynamic store
\* nor the OpenAPI document returns removed = true in every reachable state.
C15_AbsentKeyAlwaysTrue ==
    [][ ( /\ last'.op = "remove_endpoint"
          /\ last'.outcome = "reply"
          /\ ~contains_key(dynamic, last'.key[1])
          /\ ~InSpec(spec, last'.key[1]) ) =>
            last'.body = Some(to_json("removed"))
      ]_vars

\* C15 (amended): a delete for a key that is in neither the dynamic store nor
\* the OpenAPI document returns removed = true when the key is not yet in the
\* removed-spec set, and puts it there; when the key is already in the set
\* the delete returns removed = false.
C15_AbsentKeyFirstDelete ==
    [][ ( /\ last'.op = "remove_endpoint"
          /\ last'.outcome = "reply"
          /\ ~contains_key(dynamic, last'.key[1])
          /\ ~InSpec(spec, last'.key[1]) ) =>
            /\ last'.key[1] \in removed_spec'
            /\ (last'.body = Some(to_json("removed"))) <=> (last'.key[1] \notin removed_spec)
      ]_vars

\* C15 witness: the first delete of a key that is in neither the store nor
\* the document replied removed = true
C15_Witness ==
    /\ last.op = "remove_endpoint"
    /\ last.outcome = "reply"
    /\ last.prior = NoneV
    /\ ~InSpec(spec, last.key[1])
    /\ spec # NoneV
    /\ last.key[1] \in removed_spec
    /\ last.body = Some(to_json("removed"))

\* the (method, path) pairs of a parsed document that have an operation
DefinedPairs(doc) ==
    {k \in Methods \X {doc[i].tpl : i \in 1..Len(doc)} : InSpec(Some(doc), k)}

\* the operation a parsed document defines under the key k
OperationAt(doc, k) ==
    doc[CHOOSE i \in 1..Len(doc) : doc[i].tpl = k[2]].item[k[1]]

\* a successful import has just replied
Imported(out) ==
    out.op = "import_openapi" /\ out.outcome = "reply" /\ out.status = 200

\* C16: an import whose document does not parse as OpenAPI 3 replies 400
\* with an error that begins "Invalid OpenAPI specification" and leaves the
\* dynamic store and every other shared cell as it was.
C16_InvalidImportRejected ==
    [][ ( /\ last'.op = "import_openapi"
          /\ last'.ep # NoneV
          /\ ~from_value(last'.ep[1]).ok ) =>
            /\ last'.status = 400
            /\ last'.body[1].json[1] = "Invalid OpenAPI specification"
            /\ dynamic' = dynamic
            /\ dyn_poisoned' = dyn_poisoned
            /\ removed_spec' = removed_spec
            /\ spec' = spec
            /\ logs' = logs
      ]_vars

\* C16 witness: a document that does not parse was rejected with 400 while
\* the store held endpoints
C16_Witness ==
    /\ last.op = "import_openapi"
    /\ last.ep = Some(JsonInvalid)
    /\ last.status = 400
    /\ Cardinality(dynamic) = 2

\* C17: for every successful import the reported count is the number of
\* (path, method) pairs of the document that have an operation, and each of
\* these pairs is a key of the dynamic store afterwards.
C17_ImportCount ==
    [][ Imported(last') =>
            LET doc == from_value(last'.ep[1]).doc
            IN  /\ last'.body[1].json.count = Cardinality(DefinedPairs(doc))
                /\ \A k \in DefinedPairs(doc) : contains_key(dynamic', k)
      ]_vars

\* C17 witness: an import of a document with two operations reported 2
C17_Witness ==
    /\ Imported(last)
    /\ last.body[1].json.count = 2
    /\ contains_key(dynamic, <<"GET", PathUA>>)
    /\ contains_key(dynamic, <<"POST", PathUA>>)

\* the preferred status of the specification: the first of 201, 204, 202,
\* 200 among the operation's responses, and 200 when none is there
PreferredStatus(op) ==
    IF \E r \in op.responses : r.status = 201 THEN 201
    ELSE IF \E r \in op.responses : r.status = 204 THEN 204
    ELSE IF \E r \in op.responses : r.status = 202 THEN 202
    ELSE 200

\* the example under the preferred status, or {"message": "OK"}
PreferredExample(op) ==
    LET hit == {r \in op.responses :
                    r.status = PreferredStatus(op) /\ r.example # NoneV}
    IN  IF hit # {} THEN (CHOOSE r \in hit : TRUE).example[1] ELSE MessageOk

\* C18: for every imported operation the stored status is the first of 201,
\* 204, 202, 200 present in the operation's responses, and 200 when none of
\* the four is present.
C18_ImportPreferredStatus ==
    [][ Imported(last') =>
            LET doc == from_value(last'.ep[1]).doc
            IN  \A k \in DefinedPairs(doc) :
                    /\ contains_key(dynamic', k)
                    /\ map_get(dynamic', k)[1].status = PreferredStatus(OperationAt(doc, k))
      ]_vars

\* C19: for every imported operation the stored response is the
\* application/json example of the response under the preferred status when
\* there is one and {"message": "OK"} otherwise, and a request to the
\* imported endpoint that follows the import returns it.
C19_ImportExample ==
    [][ /\ Imported(last') =>
              LET doc == from_value(last'.ep[1]).doc
              IN  \A k \in DefinedPairs(doc) :
                      /\ contains_key(dynamic', k)
                      /\ map_get(dynamic', k)[1].response = PreferredExample(OperationAt(doc, k))
        /\ ( /\ Imported(last)
             /\ last'.op = "dispatch"
             /\ <<last'.req_method, last'.req_path>> \in DefinedPairs(from_value(last.ep[1]).doc) ) =>
              /\ last'.outcome = "reply"
              /\ last'.body = Some(to_json(PreferredExample(
                     OperationAt(from_value(last.ep[1]).doc,
                                 <<last'.req_method, last'.req_path>>))))
      ]_vars

\* C20: importing the exported document into an empty store yields, for
\* every key of the exported store, an endpoint with the same status and the
\* same response.
C20_ExportImportRoundTrip ==
    (last.op = "export_openapi" /\ last.outcome = "reply") =>
        LET parsed == from_value(last.body[1].json)
            again == insert_all({}, import_endpoints(parsed.doc))
        IN  /\ parsed.ok
            /\ \A e \in dynamic :
                  /\ contains_key(again, e.key)
                  /\ map_get(again, e.key)[1].status = e.ep.status
                  /\ map_get(again, e.key)[1].response = e.ep.response

\* the exported document has exactly one operation for endpoint e: at
\* paths[path][method], with one response under e's status whose example is
\* e's response
ExportedOnce(json, e) ==
    /\ Cardinality({i \in 1..Len(json.paths) : json.paths[i].tpl = e.key[2]}) = 1
    /\ \A i \in 1..Len(json.paths) : (json.paths[i].tpl = e.key[2]) =>
          {o \in json.paths[i].ops : o.name = to_lowercase(e.key[1])}
              = {JsonOp(to_lowercase(e.key[1]),
                        {JsonResponse(e.ep.status, Some(e.ep.response))})}

\* C21: the exported document contains, for every dynamic endpoint and for
\* nothing else, one operation at paths[path][method] with exactly one
\* response, keyed by the endpoint's status and carrying the stored response
\* as example; the removed-spec set and the OpenAPI context contribute
\* nothing, and export changes no state.
C21_ExportExactlyStore ==
    [][ (last'.op = "export_openapi" /\ last'.outcome = "reply") =>
            LET json == last'.body[1].json
            IN  /\ \A e \in dynamic : ExportedOnce(json, e)
                /\ \A i \in 1..Len(json.paths) : \A o \in json.paths[i].ops :
                      \E e \in dynamic :
                          /\ e.key[2] = json.paths[i].tpl
                          /\ to_lowercase(e.key[1]) = o.name
                /\ \A i \in 1..Len(json.paths) : json.paths[i].ops # {}
                /\ dynamic' = dynamic
                /\ dyn_poisoned' = dyn_poisoned
                /\ removed_spec' = removed_spec
                /\ spec' = spec
                /\ logs' = logs
      ]_vars

\* the items of a config listing that come from the OpenAPI context, and
\* those that come from the dynamic store
ListedFromSpec(list) == {list[i] : i \in {j \in 1..Len(list) : list[j].part = "spec"}}

ListedDynamic(list) == {list[i] : i \in {j \in 1..Len(list) : list[j].part = "dynamic"}}

\* C22: GET /__mock/config lists exactly (a) every (method, pathTemplate)
\* operation of the OpenAPI context whose key is not in the removed-spec set
\* and (b) every dynamic endpoint with its response, status and headers, each
\* once; a deleted spec key is never listed under (a) and every dynamic
\* endpoint is listed.
C22_ConfigListsUnion ==
    (last.op = "get_config" /\ last.outcome = "reply") =>
        LET list == last.body[1].json
        IN  /\ {<<x.method, x.path>> : x \in ListedFromSpec(list)}
                  = {k \in Methods \X Paths : InSpec(spec, k) /\ k \notin removed_spec}
            /\ \A x \in ListedFromSpec(list) : <<x.method, x.path>> \notin removed_spec
            /\ ListedDynamic(list)
                  = {[part |-> "dynamic", method |-> e.key[1], path |-> e.key[2],
                      request_schema |-> NoneV, response_example |-> NoneV,
                      response |-> Some(e.ep.response), status |-> Some(e.ep.status),
                      headers |-> e.ep.headers] : e \in dynamic}
            /\ Len(list) = Cardinality(ListedFromSpec(list)) + Cardinality(dynamic)

\* C22 witness: a listing made while a key of the OpenAPI context is deleted
\* and two dynamic endpoints are stored, one of them under the deleted key
C22_Witness ==
    /\ last.op = "get_config"
    /\ last.outcome = "reply"
    /\ \E k \in removed_spec : InSpec(spec, k)
    /\ Cardinality(dynamic) = 2
    /\ \E e \in dynamic : InSpec(spec, e.key)
    /\ Len(last.body[1].json) = 3

\* how the proxy calls move the DefaultProxyUrl cell and what proxy get
\* reports: a set with a non-blank url stores it, a set with a blank url and
\* a delete clear the cell, no other request touches it, and get reports the
\* cell with enabled true iff it is non-null
ProxyCellStep ==
    /\ (lib_last'.op = "set_proxy") =>
          default_proxy' = IF lib_last'.matched[1] \in {"", " "}
                           THEN NoneV ELSE lib_last'.matched
    /\ (lib_last'.op = "delete_proxy") => default_proxy' = NoneV
    /\ (lib_last'.op \notin {"set_proxy", "delete_proxy"}) => default_proxy' = default_proxy
    /\ (lib_last'.op = "get_proxy") =>
          /\ lib_last'.body[1].json.proxy_url = default_proxy
          /\ lib_last'.body[1].json.enabled = (lib_last'.body[1].json.proxy_url # NoneV)
    /\ (lib_last.op = "set_proxy" /\ lib_last'.op = "get_proxy") =>
          lib_last'.body[1].json.proxy_url =
              IF lib_last.matched[1] \in {"", " "} THEN NoneV ELSE lib_last.matched
    /\ (lib_last.op = "delete_proxy" /\ lib_last'.op = "get_proxy") =>
          lib_last'.body[1].json.proxy_url = NoneV

\* C23 (as stated): GET /__mock/proxy reports the url of the most recent
\* POST /__mock/proxy with a non-blank url that was not followed by a DELETE
\* or by a POST with a blank url, and null otherwise, in particular when no
\* POST was made since the server started; enabled is true iff proxy_url is
\* non-null.
C23_ProxyGetReportsLastSet ==
    [][ /\ ProxyCellStep
        /\ (lib_last.op = "start" /\ lib_last'.op = "get_proxy") =>
              lib_last'.body[1].json.proxy_url = NoneV
      ]_vars

\* C23 (amended): as stated, except that while no POST or DELETE
\* /__mock/proxy was made GET reports the DefaultProxyUrl the server was
\* started with, which is null only when none was configured.
C23_ProxyGetReportsCell ==
    [][ /\ ProxyCellStep
        /\ (lib_last.op = "start" /\ lib_last'.op = "get_proxy") =>
              (lib_last'.body[1].json.proxy_url = default_proxy
               /\ default_proxy \in StartProxy)
      ]_vars

\* C23 witness: a get reports null and disabled after a request was forwarded
\* to the default proxy and the cell was cleared
C23_Witness ==
    /\ lib_last.op = "get_proxy"
    /\ lib_last.body = Some(to_json(ProxyConfig(NoneV)))
    /\ default_proxy = NoneV
    /\ Len(lib_logs) = 1
    /\ lib_logs[1].branch = "default_proxy"

\* C24: when the outbound call of a forward fails, dispatch replies 502 with
\* a JSON error body ("Proxy request failed" for a per-endpoint proxy,
\* "Default proxy request failed" for the default proxy), records status 502
\* and that body in the trace entry of the request, and makes no second
\* outbound attempt.
C24_UpstreamFailureIs502 ==
    (lib_last.op = "dispatch" /\ lib_last.call.made /\ ~lib_last.call.got.ok) =>
        /\ lib_last.status = 502
        /\ lib_last.ctype = Some("application/json")
        /\ lib_last.body = Some(to_json(IF lib_last.branch = "proxy"
                                        THEN "Proxy request failed"
                                        ELSE "Default proxy request failed"))
        /\ lib_last.branch \in {"proxy", "default_proxy"}
        /\ Len(lib_logs) >= 1
        /\ lib_logs[Len(lib_logs)].method = lib_last.method
        /\ lib_logs[Len(lib_logs)].path = lib_last.path
        /\ lib_logs[Len(lib_logs)].status = 502
        /\ lib_logs[Len(lib_logs)].body = lib_last.body
        /\ lib_last.call.attempts = 1

\* C24 witness: a forward to the proxy of an endpoint failed and was
\* answered 502
C24_Witness ==
    /\ lib_last.op = "dispatch"
    /\ lib_last.branch = "proxy"
    /\ lib_last.call.made
    /\ ~lib_last.call.got.ok
    /\ lib_last.status = 502
    /\ lib_logs = <<TraceEntry(lib_last)>>

\* C25: the outbound request of a forward carries exactly the inbound
\* headers whose lower-cased name is not one of host, connection,
\* transfer-encoding, accept-encoding: none of the four is forwarded, whatever
\* the letter case of its name, and every other inbound header is.
C25_HopByHopFilter ==
    (lib_last.op = "dispatch" /\ lib_last.call.made) =>
        /\ lib_last.call.headers \subseteq lib_last.call.inbound
        /\ \A h \in lib_last.call.headers : lower_name(h.name) \notin DenyList
        /\ \A h \in lib_last.call.inbound :
              (lower_name(h.name) \notin DenyList) => h \in lib_last.call.headers

\* C25 witness: a forward of a request that carried the four headers with
\* capital letters in their names and one other header sent on only that one
C25_Witness ==
    /\ lib_last.op = "dispatch"
    /\ lib_last.call.made
    /\ Cardinality(lib_last.call.inbound) = 5
    /\ \E h \in lib_last.call.inbound : h.name # lower_name(h.name) /\ lower_name(h.name) \in DenyList
    /\ Cardinality(lib_last.call.headers) = 1

\* index of the '}' that closes the placeholder opened at i - 1, 0 when the
\* '{' opens no placeholder
RECURSIVE PlaceholderEnd(_, _)
PlaceholderEnd(tpl, i) ==
    IF i > Len(tpl) THEN 0
    ELSE IF tpl[i] = "}" THEN i
    ELSE IF tpl[i] \in {"{", "/"} THEN 0
    ELSE PlaceholderEnd(tpl, i + 1)

\* the characters j.. of path are obtained from the characters i.. of tpl by
\* replacing each {name} with a non-empty string without a slash
RECURSIVE IsInstanceFrom(_, _, _, _)
IsInstanceFrom(tpl, i, path, j) ==
    IF i > Len(tpl) THEN j > Len(path)
    ELSE IF tpl[i] = "{" /\ PlaceholderEnd(tpl, i + 1) > i + 1 THEN
        \E k \in j..Len(path) :
            /\ \A n \in j..k : path[n] # "/"
            /\ IsInstanceFrom(tpl, PlaceholderEnd(tpl, i + 1) + 1, path, k + 1)
    ELSE /\ j <= Len(path)
         /\ path[j] = tpl[i]
         /\ IsInstanceFrom(tpl, i + 1, path, j + 1)

IsInstance(tpl, path) == IsInstanceFrom(tpl, 1, path, 1)

\* C26: for all path templates T and concrete paths P the path matcher
\* accepts (T, P) if and only if P is obtained from T by replacing each
\* {name} placeholder with a non-empty string that contains no slash; a
\* template without placeholders matches only its exact literal,
\* case-sensitively.  The matcher is observed through dispatch: with an empty
\* store, a GET is answered from the document's operation exactly when the
\* matcher accepts the document's template for the request path.
C26_MatcherIffSubstitution ==
    ( /\ last.op = "dispatch"
      /\ last.req_method = "GET"
      /\ spec # NoneV
      /\ Len(spec[1]) = 1
      /\ dynamic = {} ) =>
        ( (last.outcome = "reply" /\ last.source = "spec")
          <=> IsInstance(spec[1][1].tpl, last.req_path) )

\* C27: the dispatcher is infallible: every non-management request produces
\* exactly one response and one trace entry, whatever the store contains; a
\* matched endpoint whose stored status is not a valid HTTP status yields a
\* 500 reply and a trace entry instead of a failure.
C27_DispatcherInfallible ==
    [][ (last'.op = "dispatch") =>
            /\ last'.outcome = "reply"
            /\ Len(logs') = Len(logs) + 1
            /\ logs'[Len(logs')].status = last'.status
            /\ \A e \in dynamic :
                  ( /\ e.key = <<last'.req_method, last'.req_path>>
                    /\ ~from_u16_ok(e.ep.status) ) => last'.status = 500
      ]_vars

\* C28: at no point does a handler hold two of the mutexes at the same
\* time, in any handler and under any interleaving.
C28_OneMutexAtATime ==
    \A t \in Threads : Cardinality(HeldBy(t)) <= 1

\* C30: a dispatch that runs concurrently with adds and deletes never replies
\* 404 for a request that some endpoint present in the store throughout the
\* dispatch matches, exactly or by template.
C30_NoSpurious404 ==
    [][ \A t \in Threads :
            ( /\ pc[t].at = "dispatch:push"
              /\ pc'[t] = Idle
              /\ last'.status = 404 ) => pc[t].stable = {}
      ]_vars

\* C29: no mutex is held while an outbound upstream call is in flight: a
\* dispatch that is forwarding holds none of the store, trace and proxy-cell
\* mutexes, so an idle worker finds all three free for a management call or
\* another dispatch.
C29_NoLockAcrossUpstream ==
    \A t \in Threads :
        pc[t].at = "lib:forward" =>
            /\ HeldBy(t) = {}
            /\ \A u \in Threads \ {t} :
                  pc[u].at \in {"idle", "lib:forward"} =>
                      \A m \in {"store", "trace", "proxy"} : held[m] = 0

\* C29 witness: worker 2 is still forwarding to the default proxy it read
\* from the cell, and worker 1 has meanwhile completed a proxy delete
C29_Witness ==
    /\ pc[2].at = "lib:forward"
    /\ pc[2].acc[2] # NoneV
    /\ default_proxy = NoneV
    /\ lib_last.op = "delete_proxy"
    /\ pc[1] = Idle

\* C31: once an add for key K has returned success, the dispatch for K that
\* follows it (before any other add, delete or import) is answered from the
\* added endpoint.
C31_AddVisibleToDispatch ==
    [][ ( /\ last.op = "add_endpoint"
          /\ last.outcome = "reply"
          /\ last'.op = "dispatch"
          /\ <<last'.req_method, last'.req_path>> = last.key[1] ) =>
            ( /\ Canned(last', last.ep[1])
              /\ last'.source = "dynamic" )
      ]_vars

\* C32: after a successful import the OpenAPI context is the imported
\* document; after a failed import and after every other operation it is
\* what it was.
C32_ContextReplacedOnImport ==
    [][ IF Imported(last') /\ last' # last
        THEN spec' = Some(from_value(last'.ep[1]).doc)
        ELSE spec' = spec
      ]_vars

\* C33: when no dynamic endpoint matches and the OpenAPI context defines an
\* operation for the request, dispatch replies 200 with the first
\* application/json example found under 200, 201, 204, 202 in that order, and
\* 200 with an empty body when the operation has no such example.
C33_SpecExampleOrder ==
    ( /\ last.op = "dispatch"
      /\ last.outcome = "reply"
      /\ ~contains_key(dynamic, LastKey)
      /\ ~\E t \in dynamic : TemplateMatches(t, last.req_method, last.req_path)
      /\ ~NoOperation(spec, last.req_method, last.req_path) ) =>
        LET example == lib_extract_example(
                           get_operation(spec[1], last.req_method, last.req_path).op)
        IN  /\ last.status = 200
            /\ last.body = IF example = NoneV THEN NoneV ELSE Some(to_json(example[1]))

\* C34: after a delete of a key that exists only in the OpenAPI document, a
\* dispatch for that method and a path of that template is no longer
\* answered with the document's example.
C34_RemovedSpecSuppresses ==
    [][ ( /\ last.op = "remove_endpoint"
          /\ last.outcome = "reply"
          /\ last.prior = NoneV
          /\ InSpec(spec, last.key[1])
          /\ last'.op = "dispatch"
          /\ last'.req_method = last.key[1][1]
          /\ regex_new(last.key[1][2]).ok
          /\ is_match(regex_new(last.key[1][2]), last'.req_path) ) =>
            last'.source # "spec"
      ]_vars

\* C35: the removed-spec set changes only through a delete of a key that is
\* absent from the dynamic store, which adds that key; add, import, dispatch
\* and an evicting delete leave it unchanged, no operation removes a key from
\* it, and a dynamic entry stored for a key of the set is served by dispatch.
C35_RemovedSpecFrame ==
    [][ /\ removed_spec \subseteq removed_spec'
        /\ (removed_spec' # removed_spec) =>
              ( /\ last'.op = "remove_endpoint"
                /\ last'.prior = NoneV
                /\ removed_spec' = removed_spec \cup {last'.key[1]} )
        /\ \A e \in dynamic :
              ( /\ last'.op = "dispatch"
                /\ e.key = <<last'.req_method, last'.req_path>>
                /\ e.key \in removed_spec ) =>
                  (Canned(last', e.ep) /\ last'.source = "dynamic")
      ]_vars

\* the braces of characters i.. of tpl are well formed: every '{' is closed
\* by a '}' before another '{' opens, and no '}' comes without its '{'
RECURSIVE BracesOk(_, _, _)
BracesOk(tpl, i, open) ==
    IF i > Len(tpl) THEN ~open
    ELSE IF tpl[i] = "{" THEN ~open /\ BracesOk(tpl, i + 1, TRUE)
    ELSE IF tpl[i] = "}" THEN open /\ BracesOk(tpl, i + 1, FALSE)
    ELSE BracesOk(tpl, i + 1, open)

\* C36: a template with malformed braces matches nothing and is never an
\* error: a dispatch that meets such a template in the OpenAPI document
\* completes with a response, and that response is not taken from the
\* malformed template.
C36_MalformedTemplateNoError ==
    ( /\ last.op = "dispatch"
      /\ spec # NoneV
      /\ \E i \in 1..Len(spec[1]) : ~BracesOk(spec[1][i].tpl, 1, FALSE) ) =>
        /\ last.outcome = "reply"
        /\ last.source = "spec" =>
              \E i \in 1..Len(spec[1]) :
                  /\ BracesOk(spec[1][i].tpl, 1, FALSE)
                  /\ IsInstance(spec[1][i].tpl, last.req_path)

\* C37: the trace entry of a dispatch identifies the branch of the cascade
\* that built the reply: proxiedTo is the proxy URL followed by the request
\* path if and only if the request was forwarded upstream, and null
\* otherwise; matchedEndpoint is null if and only if the reply is the 404 of
\* the cascade.
C37_TraceEntryBranch ==
    [][ (lib_last'.op = "dispatch" /\ Len(lib_logs') = Len(lib_logs) + 1) =>
            LET entry == lib_logs'[Len(lib_logs')]
            IN  /\ (entry.proxied_to # NoneV) <=> lib_last'.call.made
                /\ lib_last'.call.made =>
                      entry.proxied_to = Some(<<lib_last'.call.url, lib_last'.path>>)
                /\ (entry.matched_endpoint = NoneV) <=>
                      (lib_last'.branch = "notfound" /\ lib_last'.status = 404)
      ]_vars

\* C37 witness: the upstream of a proxying endpoint answered 404 and the
\* trace entry names the proxy, not the 404 of the cascade
C37_Witness ==
    /\ lib_last.op = "dispatch"
    /\ lib_last.call.made
    /\ lib_last.status = 404
    /\ Len(lib_logs) = 1
    /\ lib_logs[1].matched_endpoint = Some(<<"proxy to", "http://up">>)
    /\ lib_logs[1].proxied_to = Some(<<"http://up", PathUA>>)

\* worker t waits in lock() for a mutex that worker u holds
WaitsFor(t, u) ==
    \E s \in LockSites : pc[t].at = s.at /\ held[s.mutex] = u

\* worker t is in a lock() call
InLock(t) == \E s \in LockSites : pc[t].at = s.at

C39_ImportAtomic ==
    \A t \in Threads : \A u \in Threads :
        ( /\ pc[t].at \in {"dispatch:lookup", "config:dynamic", "export:build"}
          /\ pc[u].h = "import_openapi" ) =>
            Len(pc[u].acc) \in {0, Len(import_endpoints(from_value(pc[u].ep[1]).doc))}

\* C39 witness: a dispatch waits for the store while an import that holds it
\* has inserted one of its two endpoints
C39_Witness ==
    /\ pc[1].h = "import_openapi"
    /\ held["dynamic"] = 1
    /\ Len(pc[1].acc) = 1
    /\ Len(import_endpoints(from_value(pc[1].ep[1]).doc)) = 2
    /\ pc[2].at = "dispatch:lock_dyn"

\* C40: no request leaves a shared mutex unusable: the store mutex is never
\* poisoned, and every management call and dispatch acquires the locks it
\* asks for.
C40_NoMutexLeftUnusable ==
    /\ ~dyn_poisoned
    /\ (last.op \in {"add_endpoint", "remove_endpoint", "dispatch"}) => last.lock_ok

====
